---- MODULE Spec2Model ----
(***************************************************************************)
(* State-machine model of the OAK camera viewer: CameraController,         *)
(* ROIManager, ROIControlPanel, CameraSettingsManager and the connection   *)
(* thread of OAKCameraViewer.                                              *)
(*                                                                         *)
(* Normalised ROI coordinates (Python floats in 0.0 .. 1.0) are kept as    *)
(* integers counted in 1/Unit of the frame, so 0.5 is Unit \div 2.  Every  *)
(* value the model feeds in is a multiple of 1/Unit, so no rounding is     *)
(* hidden by the representation.                                           *)
(***************************************************************************)
EXTENDS Integers, Sequences, FiniteSets, TLC

\* Python's None, where the other values are names ...
None == "None"
\* ... where they are objects or dicts ...
Null == [none |-> TRUE]
\* ... and where they are (x, y) tuples.
NoPoint == <<>>

\* Two of the camera sockets of CameraController.camera_sockets.
Cameras == {"CAM_A", "CAM_B"}

\* The sockets the device reports when the loops and the connection run.
LoopSockets == {"CAM_A"}

\* Denominator of the fixed-point representation of a normalised coordinate.
Unit == 1920

\* Capacity of a camera's output queue (frames waiting to be read).
MaxQueue == 2

VARIABLES
    \* ---- CameraController
    device,                 \* a device object is held
    pipeline,               \* a pipeline object is held
    cameras,                \* keys of self.cameras
    output_queues,          \* camera -> number of frames waiting
    control_queues,         \* camera -> last control message sent (Null: none yet)
    cam_running,            \* CameraController.running
    \* ---- ROIManager
    roi_settings,           \* camera -> ROISettings record
    settings_changed,       \* camera -> BOOLEAN
    last_applied_settings,  \* camera -> dict of applied settings (EmptyDict at first)
    roi_running,            \* ROIManager.running
    mouse_roi_enabled,
    mouse_roi_active,
    mouse_start_point,
    mouse_current_point,
    mouse_roi_camera,
    \* ---- ROI processing thread
    roi_pc,                 \* "none" | "loop" | "has" | "get" | "mark" | "sleep" | "done"
    roi_obj,                \* the ROISettings object the loop iteration holds
    \* ---- display thread
    display_running,        \* DisplayManager.running
    disp_pc,                \* [at |-> position of the display loop, cam |-> camera in hand]
    \* ---- ROIControlPanel
    camera_tabs,            \* cameras that have a tab
    widgets,                \* camera -> record of the tab's control values
    \* ---- CameraSettingsManager
    settings,
    auto_modes,
    last_setter,            \* the setter that wrote settings last, with its argument
    calls,                  \* calls of CameraSettingsManager made so far
    \* ---- OAKCameraViewer
    connected,
    conn_pc,                \* position of _connect_camera_thread
    conn_env,               \* what the device will answer in this attempt
    attempts,               \* connection threads started so far
    requests,               \* connect_camera invocations so far
    \* ---- FileManager
    save_directory,
    current_codec,
    video_writers,          \* camera -> path of the file its open writer writes
    recording,
    recording_start_time,   \* <<t>>, or <<>> for None
    fm_result,              \* what the last start/stop call returned
    opened,                 \* paths of the files the last successful start opened
    now,                    \* the wall clock, in seconds
    \* ---- GPSIntegration
    ser,                    \* TRUE: an open serial port is held
    is_connected,
    is_running,
    current_data,
    last_fix_time,          \* <<t>>, or <<>> for None
    gps_pc,                 \* position of _gps_monitor_loop
    data,                   \* the parsed sentence the monitor loop holds
    stored_at,              \* <<t>>: when current_data was last assigned a fix
    \* ---- OAKCameraViewer: GPS interval capture, disconnecting, closing
    gps_capture_running,
    last_gps_position,
    capture_pc,             \* position of the GPS interval capture loop
    capture_obs,            \* what the capture loop decided for the last fix it saw
    ui_pc,                  \* position of the handler the UI thread is in
    window,                 \* "open", or "destroyed" once on_closing has finished
    \* ---- observation
    reenabled,              \* "yes": ROI was switched off and on again, nothing else
                            \* was changed and the loop has not applied it since
    last_cam                \* the camera the last ROIManager call named

ctlVars   == <<device, pipeline, cameras, output_queues, control_queues, cam_running>>
roiVars   == <<roi_settings, settings_changed, last_applied_settings>>
mouseVars == <<mouse_roi_enabled, mouse_roi_active, mouse_start_point,
               mouse_current_point, mouse_roi_camera>>
roiThread == <<roi_running, roi_pc, roi_obj>>
dispVars  == <<display_running, disp_pc>>
panelVars == <<camera_tabs, widgets>>
setVars   == <<settings, auto_modes, last_setter, calls>>
appVars   == <<connected, conn_pc, conn_env, attempts, requests>>
fileVars  == <<save_directory, current_codec, video_writers, recording,
               recording_start_time, fm_result, opened, now>>

gpsVars   == <<ser, is_connected, is_running, current_data, last_fix_time,
               gps_pc, data, stored_at>>
captureVars == <<gps_capture_running, last_gps_position, capture_pc, capture_obs>>
uiVars    == <<ui_pc, window>>
sessionVars == <<gpsVars, captureVars, uiVars>>

vars == <<ctlVars, roiVars, mouseVars, roiThread, dispVars, panelVars,
          setVars, fileVars, sessionVars, appVars, reenabled, last_cam>>

-----------------------------------------------------------------------------
(* Python helpers *)

Min(a, b) == IF a < b THEN a ELSE b
Max(a, b) == IF a > b THEN a ELSE b

\* int(n / d) for d > 0: truncation towards zero.
IntTrunc(n, d) == IF n >= 0 THEN n \div d ELSE -((-n) \div d)

\* pixel / frame_dimension as a normalised coordinate (a multiple of 1/Unit).
ToNorm(px, dim) == (px * Unit) \div dim

\* f with key k bound to v (dict assignment).
DictSet(f, k, v) == [c \in (DOMAIN f) \cup {k} |-> IF c = k THEN v ELSE f[c]]

EmptyMap == [c \in {} |-> Null]

-----------------------------------------------------------------------------
(* ROISettings *)

ROISettings == [enabled |-> FALSE,
                x |-> Unit \div 2,
                y |-> Unit \div 2,
                width |-> (3 * Unit) \div 10,
                height |-> (3 * Unit) \div 10,
                exposure_compensation |-> 0,
                focus_region |-> FALSE]

\* The empty dict last_applied_settings starts with.
EmptyDict == [empty |-> TRUE]

\* The callback for UI updates: assigned None at construction and never set.
on_roi_updated == None

-----------------------------------------------------------------------------
(* CameraController *)

\* Frame size the cameras deliver and the display reports to the mouse handler.
FrameWidth == 640
FrameHeight == 480

get_connected_cameras == cameras

\* connect(): dai.Device() succeeded and reports the sockets S.  The device is
\* kept even when S is empty (the call then returns False).
connect(S) ==
    /\ device' = [sockets |-> S]
    /\ UNCHANGED <<pipeline, cameras, output_queues, control_queues, cam_running>>

\* setup_pipeline(): one camera node, output queue and control queue per socket.
setup_pipeline ==
    /\ device # Null
    /\ pipeline' = TRUE
    /\ cameras' = cameras \cup device.sockets
    /\ output_queues' = [c \in (DOMAIN output_queues) \cup device.sockets |->
                            IF c \in device.sockets THEN 0 ELSE output_queues[c]]
    /\ control_queues' = [c \in (DOMAIN control_queues) \cup device.sockets |->
                            IF c \in device.sockets THEN Null ELSE control_queues[c]]
    /\ UNCHANGED <<device, cam_running>>

start_streaming ==
    /\ pipeline
    /\ cam_running' = TRUE
    /\ UNCHANGED <<device, pipeline, cameras, output_queues, control_queues>>

\* The device delivers a frame to a camera's output queue.
FrameArrives(c) ==
    /\ cam_running
    /\ c \in DOMAIN output_queues
    /\ output_queues[c] < MaxQueue
    /\ output_queues' = [output_queues EXCEPT ![c] = @ + 1]
    /\ UNCHANGED <<device, pipeline, cameras, control_queues, cam_running>>

\* send_control_to_camera: the control queues after the call.
send_control_to_camera(q, c, ctrl) ==
    IF c \in DOMAIN q THEN [q EXCEPT ![c] = ctrl] ELSE q

\* send_control_to_all_cameras: the control queues after the call.
send_control_to_all_cameras(q, ctrl) == [c \in DOMAIN q |-> ctrl]

-----------------------------------------------------------------------------
(* ROIManager: settings *)

\* on_roi_updated is None, so no setter reaches the control panel.
NotifyUI == on_roi_updated = None /\ UNCHANGED panelVars

\* The ROI loop is inside an iteration and holds a reference to the
\* ROISettings object it read from roi_settings["CAM_A"].
LoopHoldsObject == roi_pc \in {"has", "get", "mark"}

\* roi_settings[c] is rebound to another object: an iteration under way keeps
\* the object it already holds.
Rebind(c) ==
    roi_obj' = IF c = "CAM_A" /\ LoopHoldsObject /\ roi_obj = Null
                  THEN roi_settings[c] ELSE roi_obj

\* A variant that gives every connected camera its own ROI settings.
_initialize_roi_settings_every_camera ==
    LET new == get_connected_cameras \ DOMAIN roi_settings
    IN  /\ roi_settings' = [c \in DOMAIN roi_settings \cup new |->
                               IF c \in new THEN ROISettings ELSE roi_settings[c]]
        /\ settings_changed' = [c \in DOMAIN settings_changed \cup new |->
                                   IF c \in new THEN TRUE ELSE settings_changed[c]]
        /\ last_applied_settings' =
               [c \in DOMAIN last_applied_settings \cup new |->
                   IF c \in new THEN EmptyDict ELSE last_applied_settings[c]]

_initialize_roi_settings ==
    IF "CAM_A" \in get_connected_cameras /\ "CAM_A" \notin DOMAIN roi_settings
       THEN /\ roi_settings' = DictSet(roi_settings, "CAM_A", ROISettings)
            /\ settings_changed' = DictSet(settings_changed, "CAM_A", TRUE)
            /\ last_applied_settings' = DictSet(last_applied_settings, "CAM_A", EmptyDict)
       ELSE UNCHANGED roiVars

initialize_for_cameras ==
    /\ _initialize_roi_settings
    /\ UNCHANGED <<ctlVars, mouseVars, roiThread, dispVars, panelVars, setVars, fileVars, sessionVars,
                   appVars, reenabled, last_cam>>

\* ---- the setters, as the roi_settings dict each leaves behind

set_roi_settings(rs, c, s) ==
    IF c \in DOMAIN rs THEN [rs EXCEPT ![c] = s] ELSE rs

get_roi_settings(c) == IF c \in DOMAIN roi_settings THEN roi_settings[c] ELSE Null

enable_roi(rs, c, enabled) ==
    IF c \in DOMAIN rs THEN [rs EXCEPT ![c].enabled = enabled] ELSE rs

set_roi_position(rs, c, x, y) ==
    IF c \in DOMAIN rs
       THEN [rs EXCEPT ![c].x = Max(0, Min(Unit, x)),
                       ![c].y = Max(0, Min(Unit, y))]
       ELSE rs

set_roi_size(rs, c, width, height) ==
    IF c \in DOMAIN rs
       THEN [rs EXCEPT ![c].width = Max(Unit \div 10, Min(Unit, width)),
                       ![c].height = Max(Unit \div 10, Min(Unit, height))]
       ELSE rs

set_exposure_compensation(rs, c, compensation) ==
    IF c \in DOMAIN rs
       THEN [rs EXCEPT ![c].exposure_compensation = Max(-9, Min(9, compensation))]
       ELSE rs

set_focus_region(rs, c, enabled) ==
    IF c \in DOMAIN rs THEN [rs EXCEPT ![c].focus_region = enabled] ELSE rs

reset_roi_settings(rs, c) ==
    IF c \in DOMAIN rs THEN [rs EXCEPT ![c] = ROISettings] ELSE rs

\* Every setter ends the same way: settings_changed[c] = True and a call of
\* on_roi_updated, when the camera has settings.
MarkChanged(sc, c) == IF c \in DOMAIN sc THEN [sc EXCEPT ![c] = TRUE] ELSE sc

\* reenabled after enable_roi(c, enabled): "disabled" once an enabled ROI was
\* switched off, "yes" once it was switched on again.
Reenable(c, enabled) ==
    IF c = "CAM_A" /\ c \in DOMAIN roi_settings
       THEN IF enabled
               THEN IF reenabled \in {"disabled", "yes"} THEN "yes" ELSE "no"
               ELSE IF roi_settings[c].enabled \/ reenabled = "disabled"
                       THEN "disabled" ELSE "no"
       ELSE reenabled

\* reenabled after a call that is not enable_roi: forgotten when the call
\* changed a setting.
Untouched == reenabled' = IF roi_settings' = roi_settings THEN reenabled ELSE "no"

\* ---- the setters called from the UI thread

CallSetRoiSettings(c, s) ==
    /\ roi_settings' = set_roi_settings(roi_settings, c, s)
    /\ settings_changed' = MarkChanged(settings_changed, c)
    /\ IF c \in DOMAIN roi_settings THEN Rebind(c) ELSE UNCHANGED roi_obj
    /\ Untouched
    /\ last_cam' = c
    /\ NotifyUI
    /\ UNCHANGED <<last_applied_settings, ctlVars, mouseVars, roi_running, roi_pc,
                   dispVars, setVars, fileVars, sessionVars, appVars>>

CallEnableRoi(c, enabled) ==
    /\ roi_settings' = enable_roi(roi_settings, c, enabled)
    /\ settings_changed' = MarkChanged(settings_changed, c)
    /\ reenabled' = Reenable(c, enabled)
    /\ last_cam' = c
    /\ NotifyUI
    /\ UNCHANGED <<last_applied_settings, ctlVars, mouseVars, roiThread, dispVars,
                   setVars, fileVars, sessionVars, appVars>>

CallSetRoiPosition(c, x, y) ==
    /\ roi_settings' = set_roi_position(roi_settings, c, x, y)
    /\ settings_changed' = MarkChanged(settings_changed, c)
    /\ Untouched
    /\ last_cam' = c
    /\ NotifyUI
    /\ UNCHANGED <<last_applied_settings, ctlVars, mouseVars, roiThread, dispVars,
                   setVars, fileVars, sessionVars, appVars>>

CallSetRoiSize(c, width, height) ==
    /\ roi_settings' = set_roi_size(roi_settings, c, width, height)
    /\ settings_changed' = MarkChanged(settings_changed, c)
    /\ Untouched
    /\ last_cam' = c
    /\ NotifyUI
    /\ UNCHANGED <<last_applied_settings, ctlVars, mouseVars, roiThread, dispVars,
                   setVars, fileVars, sessionVars, appVars>>

CallSetExposureCompensation(c, compensation) ==
    /\ roi_settings' = set_exposure_compensation(roi_settings, c, compensation)
    /\ settings_changed' = MarkChanged(settings_changed, c)
    /\ Untouched
    /\ last_cam' = c
    /\ NotifyUI
    /\ UNCHANGED <<last_applied_settings, ctlVars, mouseVars, roiThread, dispVars,
                   setVars, fileVars, sessionVars, appVars>>

CallSetFocusRegion(c, enabled) ==
    /\ roi_settings' = set_focus_region(roi_settings, c, enabled)
    /\ settings_changed' = MarkChanged(settings_changed, c)
    /\ Untouched
    /\ last_cam' = c
    /\ NotifyUI
    /\ UNCHANGED <<last_applied_settings, ctlVars, mouseVars, roiThread, dispVars,
                   setVars, fileVars, sessionVars, appVars>>

CallResetRoiSettings(c) ==
    /\ roi_settings' = reset_roi_settings(roi_settings, c)
    /\ settings_changed' = MarkChanged(settings_changed, c)
    /\ IF c \in DOMAIN roi_settings THEN Rebind(c) ELSE UNCHANGED roi_obj
    /\ Untouched
    /\ last_cam' = c
    /\ NotifyUI
    /\ UNCHANGED <<last_applied_settings, ctlVars, mouseVars, roi_running, roi_pc,
                   dispVars, setVars, fileVars, sessionVars, appVars>>

-----------------------------------------------------------------------------
(* ROIManager: mouse selection *)

\* enable_mouse_roi had it only stored the flag.
enable_mouse_roi_flag_only(enabled) ==
    /\ mouse_roi_enabled' = enabled
    /\ UNCHANGED <<mouse_roi_active, mouse_start_point, mouse_current_point,
                   mouse_roi_camera>>
    /\ UNCHANGED <<ctlVars, roiVars, roiThread, dispVars, panelVars, setVars, fileVars, sessionVars,
                   appVars, reenabled, last_cam>>

enable_mouse_roi(enabled) ==
    /\ mouse_roi_enabled' = enabled
    /\ IF ~enabled
          THEN /\ mouse_roi_active' = FALSE
               /\ mouse_start_point' = NoPoint
               /\ mouse_current_point' = NoPoint
               /\ mouse_roi_camera' = None
          ELSE UNCHANGED <<mouse_roi_active, mouse_start_point, mouse_current_point,
                           mouse_roi_camera>>
    /\ UNCHANGED <<ctlVars, roiVars, roiThread, dispVars, panelVars, setVars, fileVars, sessionVars,
                   appVars, reenabled, last_cam>>

\* _apply_mouse_roi: the ROISettings the selection start_point .. end_point
\* leaves in place of old.
_apply_mouse_roi(old, start_point, end_point, frame_width, frame_height) ==
    LET x1 == start_point[1]
        y1 == start_point[2]
        x2 == end_point[1]
        y2 == end_point[2]
        roi_start_x == Min(x1, x2)
        roi_start_y == Min(y1, y2)
        roi_end_x == Max(x1, x2)
        roi_end_y == Max(y1, y2)
        roi_center_x == (roi_start_x + roi_end_x) \div 2
        roi_center_y == (roi_start_y + roi_end_y) \div 2
        roi_width == roi_end_x - roi_start_x
        roi_height == roi_end_y - roi_start_y
        min_size == Unit \div 20
    IN  [old EXCEPT !.x = ToNorm(roi_center_x, frame_width),
                    !.y = ToNorm(roi_center_y, frame_height),
                    !.width = Max(ToNorm(roi_width, frame_width), min_size),
                    !.height = Max(ToNorm(roi_height, frame_height), min_size),
                    !.enabled = TRUE]

handle_mouse_event(camera_name, event, x, y, frame_width, frame_height) ==
    /\ IF ~mouse_roi_enabled \/ camera_name # "CAM_A"
          THEN UNCHANGED <<mouseVars, roi_settings, settings_changed>>
          ELSE IF event = "mousedown"
          THEN /\ mouse_roi_active' = TRUE
               /\ mouse_start_point' = <<x, y>>
               /\ mouse_current_point' = <<x, y>>
               /\ mouse_roi_camera' = camera_name
               /\ UNCHANGED <<mouse_roi_enabled, roi_settings, settings_changed>>
          ELSE IF event = "mousemove" /\ mouse_roi_active
          THEN /\ mouse_current_point' = <<x, y>>
               /\ UNCHANGED <<mouse_roi_enabled, mouse_roi_active, mouse_start_point,
                              mouse_roi_camera, roi_settings, settings_changed>>
          ELSE IF event = "mouseup" /\ mouse_roi_active
          THEN /\ mouse_roi_active' = FALSE
               /\ IF mouse_start_point # NoPoint /\ mouse_current_point # NoPoint
                     /\ camera_name \in DOMAIN roi_settings
                     THEN /\ roi_settings' =
                               [roi_settings EXCEPT ![camera_name] =
                                   _apply_mouse_roi(@, mouse_start_point,
                                                    mouse_current_point,
                                                    frame_width, frame_height)]
                          /\ settings_changed' = MarkChanged(settings_changed, camera_name)
                     ELSE UNCHANGED <<roi_settings, settings_changed>>
               /\ mouse_start_point' = NoPoint
               /\ mouse_current_point' = NoPoint
               /\ mouse_roi_camera' = None
               /\ UNCHANGED mouse_roi_enabled
          ELSE UNCHANGED <<mouseVars, roi_settings, settings_changed>>
    /\ Untouched
    /\ last_cam' = camera_name
    /\ NotifyUI
    /\ UNCHANGED <<last_applied_settings, ctlVars, roiThread, dispVars, setVars, fileVars, sessionVars,
                   appVars>>

-----------------------------------------------------------------------------
(* ROIManager: the processing thread *)

\* The dict _settings_have_changed and _mark_settings_applied build from the
\* ROISettings object.
SettingsDict(s) == [enabled |-> s.enabled, x |-> s.x, y |-> s.y,
                    width |-> s.width, height |-> s.height,
                    exposure_compensation |-> s.exposure_compensation,
                    focus_region |-> s.focus_region]

_settings_have_changed(camera_name, s) ==
    IF camera_name \notin DOMAIN last_applied_settings
       THEN TRUE
       ELSE last_applied_settings[camera_name] # SettingsDict(s)

\* The ROISettings object the iteration under way works on.
LoopObject == IF roi_obj = Null THEN roi_settings["CAM_A"] ELSE roi_obj

\* The camera control _apply_roi_settings builds for settings s and a frame of
\* width x height pixels.
RoiControl(s, width, height) ==
    LET roi_center_x == IntTrunc(s.x * width, Unit)
        roi_center_y == IntTrunc(s.y * height, Unit)
        roi_w == IntTrunc(s.width * width, Unit)
        roi_h == IntTrunc(s.height * height, Unit)
        start_x == Max(0, Min(roi_center_x - (roi_w \div 2), width - roi_w))
        start_y == Max(0, Min(roi_center_y - (roi_h \div 2), height - roi_h))
        w == Min(roi_w, width - start_x)
        h == Min(roi_h, height - start_y)
    IN  [ae_region |-> <<start_x, start_y, w, h>>,
         af_region |-> IF s.focus_region THEN <<start_x, start_y, w, h>> ELSE <<>>,
         ae_compensation |-> IF s.exposure_compensation # 0
                                THEN s.exposure_compensation ELSE 0]

\* The body of start_roi_processing: a thread is started unless one runs.
StartRoiThread ==
    IF roi_running
       THEN UNCHANGED <<roi_running, roi_pc>>
       ELSE /\ roi_pc \in {"none", "done"}
            /\ roi_running' = TRUE
            /\ roi_pc' = "loop"

start_roi_processing ==
    /\ StartRoiThread
    /\ UNCHANGED <<roi_obj, ctlVars, roiVars, mouseVars, dispVars, panelVars,
                   setVars, fileVars, sessionVars, appVars, reenabled, last_cam>>

\* while self.running: ... if settings have changed
RoiLoopCheck ==
    /\ roi_pc = "loop"
    /\ roi_pc' = IF ~roi_running THEN "done"
                 ELSE IF /\ "CAM_A" \in DOMAIN roi_settings
                         /\ roi_settings["CAM_A"].enabled
                         /\ _settings_have_changed("CAM_A", roi_settings["CAM_A"])
                      THEN "has"
                      ELSE "sleep"
    /\ roi_obj' = Null
    /\ UNCHANGED <<roi_running, ctlVars, roiVars, mouseVars, dispVars, panelVars,
                   setVars, fileVars, sessionVars, appVars, reenabled, last_cam>>

\* _apply_roi_settings up to get_frame's queue.has()
RoiHas ==
    /\ roi_pc = "has"
    /\ roi_pc' = IF /\ LoopObject.enabled
                    /\ "CAM_A" \in DOMAIN output_queues
                    /\ output_queues["CAM_A"] > 0
                    THEN "get" ELSE "mark"
    /\ UNCHANGED <<roi_running, roi_obj, ctlVars, roiVars, mouseVars, dispVars,
                   panelVars, setVars, fileVars, sessionVars, appVars, reenabled, last_cam>>

\* get_frame's queue.get(), which waits for a frame, and the rest of
\* _apply_roi_settings: the control is built and sent.
RoiGet ==
    /\ roi_pc = "get"
    /\ "CAM_A" \in DOMAIN output_queues
    /\ output_queues["CAM_A"] > 0
    /\ output_queues' = [output_queues EXCEPT !["CAM_A"] = @ - 1]
    /\ control_queues' = send_control_to_camera(control_queues, "CAM_A",
                             RoiControl(LoopObject, FrameWidth, FrameHeight))
    /\ roi_pc' = "mark"
    /\ UNCHANGED <<device, pipeline, cameras, cam_running, roi_running, roi_obj,
                   roiVars, mouseVars, dispVars, panelVars, setVars, fileVars, sessionVars, appVars,
                   reenabled, last_cam>>

_mark_settings_applied ==
    /\ roi_pc = "mark"
    /\ last_applied_settings' =
           DictSet(last_applied_settings, "CAM_A", SettingsDict(LoopObject))
    /\ settings_changed' = DictSet(settings_changed, "CAM_A", FALSE)
    /\ roi_pc' = "sleep"
    /\ roi_obj' = Null
    /\ reenabled' = "no"
    /\ UNCHANGED <<roi_settings, roi_running, ctlVars, mouseVars, dispVars,
                   panelVars, setVars, fileVars, sessionVars, appVars, last_cam>>

\* time.sleep(0.1)
RoiSleep ==
    /\ roi_pc = "sleep"
    /\ roi_pc' = "loop"
    /\ UNCHANGED <<roi_running, roi_obj, ctlVars, roiVars, mouseVars, dispVars,
                   panelVars, setVars, fileVars, sessionVars, appVars, reenabled, last_cam>>

-----------------------------------------------------------------------------
(* DisplayManager: the display thread *)

\* Order in which a loop over the cameras dict visits them.
CamOrder == <<"CAM_A", "CAM_B">>

\* The cameras of S in visiting order, after position i.
Following(S, i) == {j \in (i + 1)..Len(CamOrder) : CamOrder[j] \in S}

\* Where the display loop goes after the camera at position i.
DispAdvance(i) ==
    IF Following(cameras, i) = {}
       THEN [at |-> "sleep", cam |-> None]
       ELSE [at |-> "has",
             cam |-> CamOrder[CHOOSE j \in Following(cameras, i) :
                                 \A k \in Following(cameras, i) : j <= k]]

PosOf(c) == CHOOSE i \in 1..Len(CamOrder) : CamOrder[i] = c

\* The body of start_display_loop: a thread is started unless one runs.
StartDisplayThread ==
    IF display_running
       THEN UNCHANGED <<display_running, disp_pc>>
       ELSE /\ disp_pc.at \in {"none", "done"}
            /\ display_running' = TRUE
            /\ disp_pc' = [at |-> "loop", cam |-> None]

start_display_loop ==
    /\ StartDisplayThread
    /\ UNCHANGED <<ctlVars, roiVars, mouseVars, roiThread, panelVars, setVars, fileVars, sessionVars,
                   appVars, reenabled, last_cam>>

\* while self.running: for camera_name in get_connected_cameras()
DispLoop ==
    /\ disp_pc.at = "loop"
    /\ disp_pc' = IF ~display_running THEN [at |-> "done", cam |-> None]
                  ELSE DispAdvance(0)
    /\ UNCHANGED <<display_running, ctlVars, roiVars, mouseVars, roiThread,
                   panelVars, setVars, fileVars, sessionVars, appVars, reenabled, last_cam>>

\* get_frame's queue.has() for the camera in hand
DispHas ==
    /\ disp_pc.at = "has"
    /\ disp_pc' = IF /\ disp_pc.cam \in DOMAIN output_queues
                     /\ output_queues[disp_pc.cam] > 0
                     THEN [disp_pc EXCEPT !.at = "get"]
                     ELSE DispAdvance(PosOf(disp_pc.cam))
    /\ UNCHANGED <<display_running, ctlVars, roiVars, mouseVars, roiThread,
                   panelVars, setVars, fileVars, sessionVars, appVars, reenabled, last_cam>>

\* get_frame's queue.get(), which waits for a frame; the frame is shown.
DispGet ==
    /\ disp_pc.at = "get"
    /\ disp_pc.cam \in DOMAIN output_queues
    /\ output_queues[disp_pc.cam] > 0
    /\ output_queues' = [output_queues EXCEPT ![disp_pc.cam] = @ - 1]
    /\ disp_pc' = DispAdvance(PosOf(disp_pc.cam))
    /\ UNCHANGED <<device, pipeline, cameras, control_queues, cam_running,
                   display_running, roiVars, mouseVars, roiThread, panelVars,
                   setVars, fileVars, sessionVars, appVars, reenabled, last_cam>>

\* time.sleep(sleep_time)
DispSleep ==
    /\ disp_pc.at = "sleep"
    /\ disp_pc' = [at |-> "loop", cam |-> None]
    /\ UNCHANGED <<display_running, ctlVars, roiVars, mouseVars, roiThread,
                   panelVars, setVars, fileVars, sessionVars, appVars, reenabled, last_cam>>

-----------------------------------------------------------------------------
(* ROIControlPanel and the application's on_roi_changed callback *)

\* ttk.Scale.set: the value is clipped to the scale's from_..to range.
ScaleSet(from_, to, value) == Max(from_, Min(to, value))

\* The controls of a tab as _create_camera_tab builds them: both check
\* boxes off, every scale at ttk's initial value 0.
NewTab ==
    [enabled_var |-> FALSE, focus_var |-> FALSE, x_scale |-> 0, y_scale |-> 0,
     width_scale |-> 0, height_scale |-> 0, exposure_scale |-> 0]

\* The controls of camera_name's tab after _update_controls_from_settings,
\* given the ROI settings rs and the controls w before.
_update_controls_from_settings(w, rs, camera_name) ==
    IF camera_name \notin DOMAIN rs
       THEN w
       ELSE LET s == rs[camera_name]
            IN  [enabled_var |-> s.enabled,
                 focus_var |-> s.focus_region,
                 x_scale |-> ScaleSet(0, Unit, s.x),
                 y_scale |-> ScaleSet(0, Unit, s.y),
                 width_scale |-> ScaleSet(Unit \div 10, Unit, s.width),
                 height_scale |-> ScaleSet(Unit \div 10, Unit, s.height),
                 exposure_scale |-> ScaleSet(-9, 9, s.exposure_compensation)]

\* OAKCameraViewer.on_roi_changed(camera_name) for a camera name: both
\* branches refresh the tab's controls when the tab exists.
on_roi_changed(ws, rs, camera_name) ==
    IF camera_name \in camera_tabs
       THEN [ws EXCEPT ![camera_name] =
                _update_controls_from_settings(@, rs, camera_name)]
       ELSE ws

\* Building the tabs (at construction and in refresh_camera_tabs).
_create_camera_tabs ==
    /\ IF "CAM_A" \in get_connected_cameras
          THEN /\ camera_tabs' = {"CAM_A"}
               /\ widgets' = DictSet(widgets, "CAM_A",
                      _update_controls_from_settings(NewTab, roi_settings, "CAM_A"))
          ELSE /\ camera_tabs' = {}
               /\ UNCHANGED widgets
    /\ UNCHANGED <<ctlVars, roiVars, mouseVars, roiThread, dispVars, setVars, fileVars, sessionVars,
                   appVars, reenabled, last_cam>>

\* The user drags a scale of the tab: only the label follows.
MoveScale(camera_name, scale, value) ==
    /\ camera_name \in camera_tabs
    /\ widgets' = [widgets EXCEPT ![camera_name][scale] = value]
    /\ UNCHANGED <<camera_tabs, ctlVars, roiVars, mouseVars, roiThread, dispVars,
                   setVars, fileVars, sessionVars, appVars, reenabled, last_cam>>

\* The user clicks "Enable ROI": the check box flips and is applied at once.
_on_roi_enabled(camera_name) ==
    /\ camera_name \in camera_tabs
    /\ LET enabled == ~widgets[camera_name].enabled_var
           rs == enable_roi(roi_settings, camera_name, enabled)
       IN  /\ roi_settings' = rs
           /\ settings_changed' = MarkChanged(settings_changed, camera_name)
           /\ reenabled' = Reenable(camera_name, enabled)
           /\ widgets' = on_roi_changed(
                  [widgets EXCEPT ![camera_name].enabled_var = enabled],
                  rs, camera_name)
    /\ last_cam' = camera_name
    /\ on_roi_updated = None
    /\ UNCHANGED <<camera_tabs, last_applied_settings, ctlVars, mouseVars,
                   roiThread, dispVars, setVars, fileVars, sessionVars, appVars>>

\* The user clicks "Use for Focus".
_on_focus_toggle(camera_name) ==
    /\ camera_name \in camera_tabs
    /\ LET enabled == ~widgets[camera_name].focus_var
           rs == set_focus_region(roi_settings, camera_name, enabled)
       IN  /\ roi_settings' = rs
           /\ settings_changed' = MarkChanged(settings_changed, camera_name)
           /\ widgets' = on_roi_changed(
                  [widgets EXCEPT ![camera_name].focus_var = enabled],
                  rs, camera_name)
    /\ Untouched
    /\ last_cam' = camera_name
    /\ on_roi_updated = None
    /\ UNCHANGED <<camera_tabs, last_applied_settings, ctlVars, mouseVars,
                   roiThread, dispVars, setVars, fileVars, sessionVars, appVars>>

\* The ROI settings after the five setter calls of _on_apply_roi, made with
\* the values the controls w hold.
ApplyControls(rs, w, camera_name) ==
    set_focus_region(
        enable_roi(
            set_exposure_compensation(
                set_roi_size(
                    set_roi_position(rs, camera_name, w.x_scale, w.y_scale),
                    camera_name, w.width_scale, w.height_scale),
                camera_name, w.exposure_scale),
            camera_name, w.enabled_var),
        camera_name, w.focus_var)

\* The user presses "Apply ROI Settings".
_on_apply_roi(camera_name) ==
    /\ camera_name \in camera_tabs
    /\ LET rs == ApplyControls(roi_settings, widgets[camera_name], camera_name)
       IN  /\ roi_settings' = rs
           /\ settings_changed' = MarkChanged(settings_changed, camera_name)
           /\ reenabled' =
                  IF /\ camera_name \in DOMAIN roi_settings
                     /\ [rs[camera_name] EXCEPT !.enabled = FALSE] #
                            [roi_settings[camera_name] EXCEPT !.enabled = FALSE]
                     THEN "no"
                     ELSE Reenable(camera_name, widgets[camera_name].enabled_var)
           /\ widgets' = on_roi_changed(widgets, rs, camera_name)
    /\ last_cam' = camera_name
    /\ on_roi_updated = None
    /\ UNCHANGED <<camera_tabs, last_applied_settings, ctlVars, mouseVars,
                   roiThread, dispVars, setVars, fileVars, sessionVars, appVars>>

\* The user presses "Reset CAM_x ROI".
_on_reset_camera(camera_name) ==
    /\ camera_name \in camera_tabs
    /\ LET rs == reset_roi_settings(roi_settings, camera_name)
       IN  /\ roi_settings' = rs
           /\ settings_changed' = MarkChanged(settings_changed, camera_name)
           /\ widgets' = on_roi_changed(
                  [widgets EXCEPT ![camera_name] =
                      _update_controls_from_settings(@, rs, camera_name)],
                  rs, camera_name)
    /\ IF camera_name \in DOMAIN roi_settings
          THEN Rebind(camera_name) ELSE UNCHANGED roi_obj
    /\ Untouched
    /\ last_cam' = camera_name
    /\ on_roi_updated = None
    /\ UNCHANGED <<camera_tabs, last_applied_settings, ctlVars, mouseVars,
                   roi_running, roi_pc, dispVars, setVars, fileVars, sessionVars, appVars>>

-----------------------------------------------------------------------------
(* CameraSettingsManager *)

EXPOSURE_MIN == 1
EXPOSURE_MAX == 33000
ISO_MIN == 100
ISO_MAX == 1600
FOCUS_MIN == 0
FOCUS_MAX == 255
BRIGHTNESS_MIN == -10
BRIGHTNESS_MAX == 10
CONTRAST_MIN == -10
CONTRAST_MAX == 10
SATURATION_MIN == -10
SATURATION_MAX == 10
SHARPNESS_MIN == 0
SHARPNESS_MAX == 4
WB_MIN == 1000
WB_MAX == 12000

\* self.settings at construction; gps_interval_m (1.0) is in whole metres.
DefaultSettings ==
    [exposure |-> 20000, iso |-> 800, focus |-> 130, brightness |-> 0,
     contrast |-> 0, saturation |-> 0, sharpness |-> 1, white_balance |-> 4000,
     fps |-> 30, resolution_width |-> 1280, resolution_height |-> 720,
     luma_denoise |-> 1, chroma_denoise |-> 1, gps_interval_m |-> 1]

\* self.auto_modes at construction.
DefaultAutoModes ==
    [auto_exposure |-> TRUE, auto_focus |-> TRUE, auto_white_balance |-> TRUE,
     auto_exposure_lock |-> FALSE, auto_white_balance_lock |-> FALSE]

\* A clamp that only cuts off at the top.
_clamp_upper_only(value, min_val, max_val) == Min(value, max_val)

_clamp(value, min_val, max_val) == Max(min_val, Min(value, max_val))

\* A dai.CameraControl carrying one command.
CameraControl(command, value) == [command |-> command, value |-> value]

\* What every method of the manager leaves alone, and the count of calls.
SettingsFrame ==
    /\ calls' = calls + 1
    /\ UNCHANGED <<device, pipeline, cameras, output_queues, cam_running, roiVars,
                   mouseVars, roiThread, dispVars, panelVars, appVars, reenabled,
                   last_cam, fileVars, sessionVars>>

\* A setter stores the clamped value, then sends ctrl to every camera when
\* send holds.
Setter(name, value, stored, send, ctrl) ==
    /\ settings' = [settings EXCEPT ![name] = stored]
    /\ control_queues' = IF send
                            THEN send_control_to_all_cameras(control_queues, ctrl)
                            ELSE control_queues
    /\ last_setter' = [name |-> name, value |-> value]
    /\ UNCHANGED auto_modes
    /\ SettingsFrame

set_exposure(value) ==
    LET v == _clamp(value, EXPOSURE_MIN, EXPOSURE_MAX)
    IN  Setter("exposure", value, v, ~auto_modes.auto_exposure,
               CameraControl("setManualExposure", <<v, settings.iso>>))

set_iso(value) ==
    LET v == _clamp(value, ISO_MIN, ISO_MAX)
    IN  Setter("iso", value, v, ~auto_modes.auto_exposure,
               CameraControl("setManualExposure", <<settings.exposure, v>>))

set_focus(value) ==
    LET v == _clamp(value, FOCUS_MIN, FOCUS_MAX)
    IN  Setter("focus", value, v, ~auto_modes.auto_focus,
               CameraControl("setManualFocus", v))

set_brightness(value) ==
    LET v == _clamp(value, BRIGHTNESS_MIN, BRIGHTNESS_MAX)
    IN  Setter("brightness", value, v, TRUE, CameraControl("setBrightness", v))

set_contrast(value) ==
    LET v == _clamp(value, CONTRAST_MIN, CONTRAST_MAX)
    IN  Setter("contrast", value, v, TRUE, CameraControl("setContrast", v))

set_saturation(value) ==
    LET v == _clamp(value, SATURATION_MIN, SATURATION_MAX)
    IN  Setter("saturation", value, v, TRUE, CameraControl("setSaturation", v))

set_sharpness(value) ==
    LET v == _clamp(value, SHARPNESS_MIN, SHARPNESS_MAX)
    IN  Setter("sharpness", value, v, TRUE, CameraControl("setSharpness", v))

set_white_balance(value) ==
    LET v == _clamp(value, WB_MIN, WB_MAX)
    IN  Setter("white_balance", value, v, ~auto_modes.auto_white_balance,
               CameraControl("setManualWhiteBalance", v))

set_luma_denoise(value) ==
    LET v == _clamp(value, 0, 4)
    IN  Setter("luma_denoise", value, v, TRUE, CameraControl("setLumaDenoise", v))

set_chroma_denoise(value) ==
    LET v == _clamp(value, 0, 4)
    IN  Setter("chroma_denoise", value, v, TRUE,
               CameraControl("setChromaDenoise", v))

\* set_auto_exposure, set_auto_focus, set_auto_white_balance: the flag is
\* stored and the matching control is sent to every camera.
AutoMode(key, enabled, ctrl) ==
    /\ auto_modes' = [auto_modes EXCEPT ![key] = enabled]
    /\ control_queues' = send_control_to_all_cameras(control_queues, ctrl)
    /\ UNCHANGED <<settings, last_setter>>
    /\ SettingsFrame

set_auto_exposure(enabled) ==
    AutoMode("auto_exposure", enabled,
             IF enabled
                THEN CameraControl("setAutoExposureEnable", <<>>)
                ELSE CameraControl("setManualExposure",
                                   <<settings.exposure, settings.iso>>))

set_auto_focus(enabled) ==
    AutoMode("auto_focus", enabled,
             IF enabled
                THEN CameraControl("setAutoFocusMode", "CONTINUOUS_VIDEO")
                ELSE CameraControl("setManualFocus", settings.focus))

set_auto_white_balance(enabled) ==
    AutoMode("auto_white_balance", enabled,
             IF enabled
                THEN CameraControl("setAutoWhiteBalanceMode", "AUTO")
                ELSE CameraControl("setManualWhiteBalance", settings.white_balance))

\* update_setting: the value is stored as it is, nothing is sent.
update_setting(key, value) ==
    /\ settings' = IF key \in DOMAIN settings
                      THEN [settings EXCEPT ![key] = value] ELSE settings
    /\ last_setter' = Null
    /\ UNCHANGED <<auto_modes, control_queues>>
    /\ SettingsFrame

\* ControlPanel._on_gps_interval_changed: a value that is not positive
\* becomes 1.0, then update_setting stores it.
_on_gps_interval_changed(val) ==
    update_setting("gps_interval_m", IF val <= 0 THEN 1 ELSE val)

\* The dictionary reset_to_defaults passes to self.settings.update.
ResetSettings ==
    [exposure |-> 20000, iso |-> 800, focus |-> 130, brightness |-> 0,
     contrast |-> 0, saturation |-> 0, sharpness |-> 1, white_balance |-> 4000,
     luma_denoise |-> 1, chroma_denoise |-> 1]

\* The dictionary reset_to_defaults passes to self.auto_modes.update.
ResetAutoModes ==
    [auto_exposure |-> TRUE, auto_focus |-> TRUE, auto_white_balance |-> TRUE,
     auto_exposure_lock |-> FALSE, auto_white_balance_lock |-> FALSE]

\* dict.update: the keys of new take new's values, the others keep theirs.
DictUpdate(d, new) ==
    [k \in DOMAIN d \cup DOMAIN new |-> IF k \in DOMAIN new THEN new[k] ELSE d[k]]

\* apply_all_settings: the three auto modes, the six always-sent settings and
\* the two locks are set again from the stored values, each through its
\* setter; the settings after the call, given the settings before it.
apply_all_settings(s) ==
    [s EXCEPT !.brightness = _clamp(@, BRIGHTNESS_MIN, BRIGHTNESS_MAX),
              !.contrast = _clamp(@, CONTRAST_MIN, CONTRAST_MAX),
              !.saturation = _clamp(@, SATURATION_MIN, SATURATION_MAX),
              !.sharpness = _clamp(@, SHARPNESS_MIN, SHARPNESS_MAX),
              !.luma_denoise = _clamp(@, 0, 4),
              !.chroma_denoise = _clamp(@, 0, 4)]

\* reset_to_defaults: the two updates, then apply_all_settings, whose last
\* call is set_auto_white_balance_lock and whose last clamping setter is
\* set_chroma_denoise; last_setter records that the call came from here.
reset_to_defaults ==
    LET s == DictUpdate(settings, ResetSettings)
        a == DictUpdate(auto_modes, ResetAutoModes)
    IN  /\ settings' = apply_all_settings(s)
        /\ auto_modes' = a
        /\ control_queues' =
              send_control_to_all_cameras(
                  control_queues,
                  CameraControl("setAutoWhiteBalanceLock",
                                <<a.auto_white_balance_lock>>))
        /\ last_setter' = [name |-> "chroma_denoise", value |-> s.chroma_denoise,
                            by |-> "reset_to_defaults"]
        /\ SettingsFrame

-----------------------------------------------------------------------------
(* FileManager *)

\* The keys of self.video_codecs.
video_codecs == {"MJPG", "XVID", "MP4V", "H264"}

\* What FileManager's methods leave alone.
FileFrame ==
    UNCHANGED <<ctlVars, roiVars, mouseVars, roiThread, dispVars, panelVars,
                setVars, appVars, sessionVars, reenabled, last_cam>>

\* The wall clock advances by a second.
Tick ==
    /\ now' = now + 1
    /\ UNCHANGED <<save_directory, current_codec, video_writers, recording,
                   recording_start_time, fm_result, opened>>
    /\ FileFrame

set_save_directory(directory) ==
    /\ save_directory' = directory
    /\ UNCHANGED <<current_codec, video_writers, recording, recording_start_time,
                   fm_result, opened, now>>
    /\ FileFrame

set_video_codec(codec) ==
    /\ current_codec' = IF codec \in video_codecs THEN codec ELSE current_codec
    /\ UNCHANGED <<save_directory, video_writers, recording, recording_start_time,
                   fm_result, opened, now>>
    /\ FileFrame

\* "avi" if the codec is MJPG or XVID, else "mp4".
Extension(codec_name) == IF codec_name \in {"MJPG", "XVID"} THEN "avi" ELSE "mp4"

\* save_directory / f"{camera_name}_video_{timestamp}.{extension}"; the
\* timestamp is a time formatted to the second, or "unknown".
VideoPath(directory, camera_name, timestamp, extension) ==
    [directory |-> directory, camera_name |-> camera_name,
     timestamp |-> timestamp, extension |-> extension]

\* strftime("%Y%m%d_%H%M%S") of the time t.
Strftime(t) == <<t>>

\* The elements of a list of camera names up to position k.
Prefix(camera_names, k) == {camera_names[i] : i \in 1..k}

\* start_video_recording while recording: a variant that restarts the clock.
RejectStart_restarts_clock ==
    /\ fm_result' = [op |-> "start", success |-> FALSE,
                     message |-> "Recording already in progress"]
    /\ recording_start_time' = <<now>>
    /\ UNCHANGED <<save_directory, current_codec, video_writers, recording,
                   opened, now>>

\* start_video_recording while recording: refused, nothing is touched.
RejectStart ==
    /\ fm_result' = [op |-> "start", success |-> FALSE,
                     message |-> "Recording already in progress"]
    /\ UNCHANGED <<save_directory, current_codec, video_writers, recording,
                   recording_start_time, opened, now>>

\* start_video_recording(camera_names, ..., codec).  fail tells what happens
\* to the writers: fail.at = 0, all open; otherwise the writer of the camera
\* at position fail.at is not opened (fail.kind = "not_opened") or its
\* creation raises (fail.kind = "exception").  elapsed is the time that
\* passes between the two readings of the clock.
start_video_recording(camera_names, codec, fail, elapsed) ==
    /\ IF recording
          THEN RejectStart
          ELSE LET codec_name == IF codec # None THEN codec ELSE current_codec
                   extension == Extension(codec_name)
                   filename(c) == VideoPath(save_directory, c, Strftime(now), extension)
                   done == IF fail.at = 0 THEN Len(camera_names) ELSE fail.at - 1
                   written == [c \in DOMAIN video_writers \cup Prefix(camera_names, done) |->
                                  IF c \in Prefix(camera_names, done)
                                     THEN filename(c) ELSE video_writers[c]]
               IN  IF fail.at = 0
                      THEN /\ video_writers' = written
                           /\ recording' = TRUE
                           /\ now' = now + elapsed
                           /\ recording_start_time' = <<now'>>
                           /\ opened' = {filename(c) : c \in Prefix(camera_names, done)}
                           /\ fm_result' = [op |-> "start", success |-> TRUE,
                                            message |-> "Recording started"]
                           /\ UNCHANGED <<save_directory, current_codec>>
                      ELSE /\ video_writers' = IF fail.kind = "not_opened"
                                                  THEN EmptyMap ELSE written
                           /\ fm_result' =
                                 [op |-> "start", success |-> FALSE,
                                  message |-> IF fail.kind = "not_opened"
                                                 THEN "Failed to create video writer"
                                                 ELSE "Failed to start recording"]
                           /\ UNCHANGED <<save_directory, current_codec, recording,
                                          recording_start_time, opened, now>>
    /\ FileFrame

\* The body of stop_video_recording.
StopRecording ==
    IF ~recording
       THEN /\ fm_result' = [op |-> "stop", success |-> FALSE,
                             message |-> "No recording in progress",
                             filepaths |-> {}]
            /\ UNCHANGED <<video_writers, recording, recording_start_time>>
       ELSE LET timestamp == IF recording_start_time # <<>>
                                THEN Strftime(recording_start_time[1])
                                ELSE <<"unknown">>
                extension == Extension(current_codec)
                filepaths == {VideoPath(save_directory, c, timestamp, extension) :
                                 c \in DOMAIN video_writers}
                \* self.recording_start_time = None comes before the duration
                start_time == <<>>
                duration == IF start_time # <<>> THEN now - start_time[1] ELSE 0
            IN  /\ video_writers' = EmptyMap
                /\ recording' = FALSE
                /\ recording_start_time' = start_time
                /\ fm_result' = [op |-> "stop", success |-> TRUE,
                                 message |-> "Recording stopped",
                                 duration |-> duration, filepaths |-> filepaths]

stop_video_recording ==
    /\ StopRecording
    /\ UNCHANGED <<save_directory, current_codec, opened, now>>
    /\ FileFrame

-----------------------------------------------------------------------------
(* GPSIntegration *)

\* What GPSIntegration's methods and its monitor thread leave alone.
GpsFrame ==
    UNCHANGED <<ctlVars, roiVars, mouseVars, roiThread, dispVars, panelVars,
                setVars, fileVars, appVars, captureVars, window, reenabled,
                last_cam>>

\* Latitudes a sentence may carry, in metres along a meridian.
Positions == {0, 2, 6}

\* The lines the receiver sends: RMC with status A or V, GGA with a fix
\* quality, and a sentence of another type.
Sentences ==
    [type : {"RMC"}, status : {"A", "V"}, latitude : Positions]
      \cup [type : {"GGA"}, gps_qual : {0, 1}, latitude : Positions]
      \cup {[type |-> "GSV"]}

\* What readline returns when the read times out.
NoLine == [type |-> "timeout"]

\* parse_gps_data: a dictionary for RMC and GGA, None for anything else.
parse_gps_data(line) ==
    CASE line.type = "RMC" ->
            [type |-> "RMC", latitude |-> line.latitude, status |-> line.status,
             has_fix |-> line.status = "A"]
      [] line.type = "GGA" ->
            [type |-> "GGA", latitude |-> line.latitude,
             fix_quality |-> line.gps_qual, has_fix |-> line.gps_qual > 0]
      [] OTHER -> Null

\* A test that lets every parsed sentence through.
HasFix_any_sentence(d) == d # Null

\* if data and data.get('has_fix')
HasFix(d) == d # Null /\ d.has_fix

\* connect_gps: nothing when connected; else the port is looked for and
\* opened, which the environment lets succeed (found) or not.
connect_gps(found) ==
    /\ IF ~is_connected /\ found
          THEN ser' = TRUE /\ is_connected' = TRUE
          ELSE UNCHANGED <<ser, is_connected>>
    /\ UNCHANGED <<is_running, current_data, last_fix_time, gps_pc, data,
                   stored_at, ui_pc>>
    /\ GpsFrame

\* start_gps_monitoring: refused when not connected, else the monitor
\* thread is started.
start_gps_monitoring ==
    /\ IF ~is_connected
          THEN UNCHANGED <<is_running, gps_pc>>
          ELSE /\ gps_pc \in {"none", "done"}
               /\ is_running' = TRUE
               /\ gps_pc' = "loop"
    /\ UNCHANGED <<ser, is_connected, current_data, last_fix_time, data,
                   stored_at, ui_pc>>
    /\ GpsFrame

\* while self.is_running and self.is_connected
GpsLoopCheck ==
    /\ gps_pc = "loop"
    /\ gps_pc' = IF is_running /\ is_connected THEN "read" ELSE "done"
    /\ UNCHANGED <<ser, is_connected, is_running, current_data, last_fix_time,
                   data, stored_at, ui_pc>>
    /\ GpsFrame

\* self.ser.readline() and parse_gps_data: with no open port the call
\* raises and the loop goes round; a line without a fix is dropped.
GpsReadline(line) ==
    /\ gps_pc = "read"
    /\ IF ser /\ HasFix(parse_gps_data(line))
          THEN data' = parse_gps_data(line) /\ gps_pc' = "store"
          ELSE data' = Null /\ gps_pc' = "loop"
    /\ UNCHANGED <<ser, is_connected, is_running, current_data, last_fix_time,
                   stored_at, ui_pc>>
    /\ GpsFrame

\* self.current_data = data
GpsStore ==
    /\ gps_pc = "store"
    /\ current_data' = data
    /\ stored_at' = <<now>>
    /\ gps_pc' = "stamp"
    /\ UNCHANGED <<ser, is_connected, is_running, last_fix_time, data, ui_pc>>
    /\ GpsFrame

\* self.last_fix_time = time.time()
GpsStamp ==
    /\ gps_pc = "stamp"
    /\ last_fix_time' = <<now>>
    /\ data' = Null
    /\ gps_pc' = "loop"
    /\ UNCHANGED <<ser, is_connected, is_running, current_data, stored_at, ui_pc>>
    /\ GpsFrame

GpsThreadStep ==
    \/ GpsLoopCheck
    \/ \E line \in Sentences \cup {NoLine} : GpsReadline(line)
    \/ GpsStore
    \/ GpsStamp

\* The two assignments of a fix are next to each other: the clock, which
\* counts whole seconds, does not advance between them.
SameSecond == gps_pc # "stamp"

\* disconnect_gps, first statement: self.is_running = False
GpsStopFlag ==
    /\ is_running' = FALSE
    /\ UNCHANGED <<ser, is_connected, current_data, last_fix_time, gps_pc, data,
                   stored_at>>

\* gps_thread.join(timeout=1) returns: the thread has ended or was never
\* started, or the second has passed with the thread still inside readline.
GpsJoinReturns == gps_pc \in {"none", "done", "read"}

\* disconnect_gps, the statements after the join.
GpsClose ==
    /\ ser' = FALSE
    /\ is_connected' = FALSE
    /\ current_data' = Null
    /\ UNCHANGED <<is_running, last_fix_time, gps_pc, data, stored_at>>

\* get_current_gps_data: the stored fix when it is less than 10 seconds old.
get_current_gps_data ==
    IF /\ current_data # Null
       /\ last_fix_time # <<>>
       /\ now - last_fix_time[1] < 10
       THEN current_data ELSE Null

\* test_gps_connection: connect_gps, then lines are read for up to five
\* seconds; the first fix among them (here: line) is stored.
test_gps_connection(found, line) ==
    /\ IF ~is_connected /\ found
          THEN ser' = TRUE /\ is_connected' = TRUE
          ELSE UNCHANGED <<ser, is_connected>>
    /\ IF is_connected' /\ HasFix(parse_gps_data(line))
          THEN /\ current_data' = parse_gps_data(line)
               /\ stored_at' = <<now>>
               /\ last_fix_time' = <<now>>
          ELSE UNCHANGED <<current_data, stored_at, last_fix_time>>
    /\ UNCHANGED <<is_running, gps_pc, data, ui_pc>>
    /\ GpsFrame

\* disconnect_gps called on its own: the caller is in it from the first
\* statement until the last.
disconnect_gps ==
    /\ CASE ui_pc.at = "idle" ->
              /\ GpsStopFlag
              /\ ui_pc' = [handler |-> "disconnect_gps", at |-> "join"]
         [] ui_pc.handler = "disconnect_gps" /\ ui_pc.at = "join" ->
              /\ GpsJoinReturns
              /\ UNCHANGED gpsVars
              /\ ui_pc' = [ui_pc EXCEPT !.at = "close"]
         [] ui_pc.handler = "disconnect_gps" /\ ui_pc.at = "close" ->
              /\ GpsClose
              /\ ui_pc' = [handler |-> "idle", at |-> "idle"]
         [] OTHER -> FALSE
    /\ GpsFrame

-----------------------------------------------------------------------------
(* OAKCameraViewer: connecting *)

\* setup_ui_components always builds the camera settings panel.
control_panel == TRUE

\* ControlPanel.get_current_settings always returns the key
\* "per_camera_resolutions".
per_camera_resolutions_in_settings == TRUE

\* The methods of CameraController that the connection thread calls.
CameraControllerMethods == {"connect", "setup_pipeline", "start_streaming",
                            "get_connected_cameras", "get_device_info"}

\* What the device may answer during one attempt.
ConnEnvs == [connect : {"ok", "no_cameras", "error"},
             pipeline : BOOLEAN, stream : BOOLEAN, sockets : {LoopSockets}]

\* The thread leaves on one of the early returns or through the except
\* branch: only messages are scheduled.
AttemptFails_marks_connected ==
    /\ conn_pc' = "failed"
    /\ connected' = TRUE

AttemptFails ==
    /\ conn_pc' = "failed"
    /\ UNCHANGED connected

\* connect_camera: nothing when connected, else a connection thread starts.
connect_camera(env) ==
    /\ conn_pc \in {"none", "failed", "finished"}
    /\ requests' = requests + 1
    /\ IF connected
          THEN UNCHANGED <<conn_pc, conn_env, attempts>>
          ELSE /\ conn_pc' = "connect"
               /\ conn_env' = env
               /\ attempts' = attempts + 1
    /\ UNCHANGED <<connected, ctlVars, roiVars, mouseVars, roiThread, dispVars,
                   panelVars, setVars, fileVars, sessionVars, reenabled, last_cam>>

\* One step of _connect_camera_thread, from the position conn_pc.
_connect_camera_thread ==
    /\ CASE conn_pc = "connect" ->
              \* success, message = self.camera_controller.connect()
              /\ IF conn_env.connect = "ok"
                    THEN /\ connect(conn_env.sockets)
                         /\ conn_pc' = "resolutions"
                         /\ UNCHANGED connected
                    ELSE /\ IF conn_env.connect = "no_cameras"
                               THEN connect({}) ELSE UNCHANGED ctlVars
                         /\ AttemptFails
              /\ UNCHANGED <<roiVars, roiThread, dispVars>>
         [] conn_pc = "resolutions" ->
              \* current_settings = ...; set_desired_resolutions(...)
              /\ IF /\ control_panel
                    /\ per_camera_resolutions_in_settings
                    /\ "set_desired_resolutions" \notin CameraControllerMethods
                    THEN AttemptFails
                    ELSE conn_pc' = "pipeline" /\ UNCHANGED connected
              /\ UNCHANGED <<ctlVars, roiVars, roiThread, dispVars>>
         [] conn_pc = "pipeline" ->
              /\ IF conn_env.pipeline
                    THEN /\ setup_pipeline
                         /\ conn_pc' = "stream"
                         /\ UNCHANGED connected
                    ELSE AttemptFails /\ UNCHANGED ctlVars
              /\ UNCHANGED <<roiVars, roiThread, dispVars>>
         [] conn_pc = "stream" ->
              /\ IF conn_env.stream
                    THEN /\ start_streaming
                         /\ conn_pc' = "start"
                         /\ UNCHANGED connected
                    ELSE AttemptFails /\ UNCHANGED ctlVars
              /\ UNCHANGED <<roiVars, roiThread, dispVars>>
         [] conn_pc = "start" ->
              \* the loops are started, then self.connected = True
              /\ _initialize_roi_settings
              /\ StartRoiThread
              /\ StartDisplayThread
              /\ connected' = TRUE
              /\ conn_pc' = "finished"
              /\ UNCHANGED <<ctlVars, roi_obj>>
         [] OTHER -> FALSE
    /\ UNCHANGED <<conn_env, attempts, requests, mouseVars, panelVars, setVars, fileVars, sessionVars,
                   reenabled, last_cam>>

-----------------------------------------------------------------------------
(* OAKCameraViewer: GPS interval capture *)

\* The UI thread is in no handler.
Idle == [handler |-> "idle", at |-> "idle"]

\* camera_controller.set_desired_resolutions(...): the call returns and the
\* connection thread goes on to set up the pipeline.
set_desired_resolutions ==
    /\ conn_pc = "resolutions"
    /\ conn_pc' = "pipeline"
    /\ UNCHANGED <<connected, conn_env, attempts, requests, ctlVars, roiVars,
                   mouseVars, roiThread, dispVars, panelVars, setVars, fileVars,
                   sessionVars, reenabled, last_cam>>

\* The start_gps thread the connection thread launches once the controller
\* has connected: connect_gps, then start_gps_monitoring when it succeeded.
start_gps(found) ==
    /\ conn_pc \notin {"none", "connect"}
    /\ conn_env.connect = "ok"
    /\ gps_pc = "none"
    /\ IF is_connected \/ found
          THEN /\ ser' = TRUE
               /\ is_connected' = TRUE
               /\ is_running' = TRUE
               /\ gps_pc' = "loop"
          ELSE UNCHANGED <<ser, is_connected, is_running, gps_pc>>
    /\ UNCHANGED <<current_data, last_fix_time, data, stored_at, ui_pc>>
    /\ GpsFrame

\* float(get_setting("gps_interval_m") or 1.0)
threshold_m == IF settings.gps_interval_m # 0 THEN settings.gps_interval_m ELSE 1

\* _gps_distance_m: the haversine distance of two fixes, in metres; the
\* fixes of the model lie on one meridian.
_gps_distance_m(a, b) ==
    IF a.latitude >= b.latitude THEN a.latitude - b.latitude
                                ELSE b.latitude - a.latitude

\* A loop that captures only beyond the threshold.
Triggers_only_beyond(reference, gps_data) ==
    reference = Null \/ _gps_distance_m(reference, gps_data) > threshold_m

\* The loop captures for gps_data: there is no reference position yet, or
\* the fix is at least threshold_m away from it.
Triggers(reference, gps_data) ==
    reference = Null \/ _gps_distance_m(reference, gps_data) >= threshold_m

\* What the capture thread leaves alone.
CaptureFrame ==
    UNCHANGED <<roiVars, mouseVars, roiThread, dispVars, panelVars, setVars,
                fileVars, appVars, gpsVars, uiVars, reenabled, last_cam>>

\* capture_obs when a run of the capture loop starts.
NoDecision == [gps_data |-> Null, triggered |-> FALSE, previous |-> Null,
               trigger |-> Null, interval |-> 0]

\* The body of start_gps_interval_capture.
StartCapture ==
    IF gps_capture_running \/ ~connected
       THEN UNCHANGED captureVars
       ELSE /\ capture_pc.at \in {"none", "done"}
            /\ gps_capture_running' = TRUE
            /\ last_gps_position' = Null
            /\ capture_pc' = [at |-> "loop", cam |-> None, first |-> FALSE,
                              gps_data |-> Null]
            /\ capture_obs' = NoDecision

\* while self.gps_capture_running
CapLoopCheck ==
    /\ capture_pc.at = "loop"
    /\ capture_pc' = [capture_pc EXCEPT
                         !.at = IF gps_capture_running THEN "fix" ELSE "done"]
    /\ UNCHANGED <<gps_capture_running, last_gps_position, capture_obs, ctlVars>>
    /\ CaptureFrame

\* Where _capture_images_with_gps goes after the camera at position i: to
\* the next camera, or out of the loop over the cameras.
CapAdvance(i) ==
    IF Following(cameras, i) = {}
       THEN [at |-> "saved", cam |-> None]
       ELSE [at |-> "has",
             cam |-> CamOrder[CHOOSE j \in Following(cameras, i) :
                                 \A k \in Following(cameras, i) : j <= k]]

\* gps_data = get_current_gps_data() and the decision taken on it; with a
\* first fix the reference position is set before the capture.
CapDecide ==
    /\ capture_pc.at = "fix"
    /\ LET gps_data == get_current_gps_data
       IN  IF gps_data = Null
              THEN /\ capture_pc' = [capture_pc EXCEPT !.at = "sleep"]
                   /\ UNCHANGED <<last_gps_position, capture_obs>>
              ELSE IF Triggers(last_gps_position, gps_data)
                      THEN /\ capture_pc' =
                                 [at |-> CapAdvance(0).at, cam |-> CapAdvance(0).cam,
                                  first |-> last_gps_position = Null,
                                  gps_data |-> gps_data]
                           /\ last_gps_position' =
                                 IF last_gps_position = Null
                                    THEN gps_data ELSE last_gps_position
                           /\ capture_obs' =
                                 [gps_data |-> gps_data, triggered |-> TRUE,
                                  previous |-> capture_obs.trigger,
                                  trigger |-> gps_data,
                                  interval |-> settings.gps_interval_m]
                      ELSE /\ capture_pc' = [capture_pc EXCEPT !.at = "sleep"]
                           /\ capture_obs' =
                                 [gps_data |-> gps_data, triggered |-> FALSE,
                                  previous |-> capture_obs.trigger,
                                  trigger |-> capture_obs.trigger,
                                  interval |-> settings.gps_interval_m]
                           /\ UNCHANGED last_gps_position
    /\ UNCHANGED <<gps_capture_running, ctlVars>>
    /\ CaptureFrame

\* _capture_images_with_gps: get_frame's queue.has() for the camera in hand
CapHas ==
    /\ capture_pc.at = "has"
    /\ capture_pc' =
          IF /\ capture_pc.cam \in DOMAIN output_queues
             /\ output_queues[capture_pc.cam] > 0
             THEN [capture_pc EXCEPT !.at = "get"]
             ELSE [capture_pc EXCEPT !.at = CapAdvance(PosOf(capture_pc.cam)).at,
                                     !.cam = CapAdvance(PosOf(capture_pc.cam)).cam]
    /\ UNCHANGED <<gps_capture_running, last_gps_position, capture_obs, ctlVars>>
    /\ CaptureFrame

\* get_frame's queue.get(), which waits for a frame
CapGet ==
    /\ capture_pc.at = "get"
    /\ capture_pc.cam \in DOMAIN output_queues
    /\ output_queues[capture_pc.cam] > 0
    /\ output_queues' = [output_queues EXCEPT ![capture_pc.cam] = @ - 1]
    /\ capture_pc' = [capture_pc EXCEPT !.at = CapAdvance(PosOf(capture_pc.cam)).at,
                                        !.cam = CapAdvance(PosOf(capture_pc.cam)).cam]
    /\ UNCHANGED <<device, pipeline, cameras, control_queues, cam_running,
                   gps_capture_running, last_gps_position, capture_obs>>
    /\ CaptureFrame

\* The images are written (or none was there); after a capture that was not
\* the first the reference position is set.
CapSaved ==
    /\ capture_pc.at = "saved"
    /\ last_gps_position' = IF capture_pc.first THEN last_gps_position
                                                ELSE capture_pc.gps_data
    /\ capture_pc' = [capture_pc EXCEPT !.at = "sleep"]
    /\ UNCHANGED <<gps_capture_running, capture_obs, ctlVars>>
    /\ CaptureFrame

\* time.sleep(0.2)
CapSleep ==
    /\ capture_pc.at = "sleep"
    /\ capture_pc' = [capture_pc EXCEPT !.at = "loop"]
    /\ UNCHANGED <<gps_capture_running, last_gps_position, capture_obs, ctlVars>>
    /\ CaptureFrame

CaptureThreadStep ==
    \/ CapLoopCheck
    \/ CapDecide
    \/ CapHas
    \/ CapGet
    \/ CapSaved
    \/ CapSleep

\* gps_capture_thread.join(timeout=1.0) returns: the thread has ended or was
\* never started, or the second has passed with the thread inside
\* queue.get().
CaptureJoinReturns == capture_pc.at \in {"none", "done", "get"}

\* toggle_gps_interval_capture: start_gps_interval_capture when the capture
\* is not running, else stop_gps_interval_capture (the flag, then the join).
toggle_gps_interval_capture ==
    /\ CASE ui_pc.at = "idle" /\ ~gps_capture_running ->
              /\ StartCapture
              /\ ui_pc' = [handler |-> "toggle_gps_interval_capture", at |-> "idle"]
         [] ui_pc.at = "idle" /\ gps_capture_running ->
              /\ gps_capture_running' = FALSE
              /\ ui_pc' = [handler |-> "toggle_gps_interval_capture",
                           at |-> "join_capture"]
              /\ UNCHANGED <<last_gps_position, capture_pc, capture_obs>>
         [] /\ ui_pc.handler = "toggle_gps_interval_capture"
            /\ ui_pc.at = "join_capture" ->
              /\ CaptureJoinReturns
              /\ ui_pc' = [ui_pc EXCEPT !.at = "idle"]
              /\ UNCHANGED captureVars
         [] OTHER -> FALSE
    /\ UNCHANGED <<ctlVars, roiVars, mouseVars, roiThread, dispVars, panelVars,
                   setVars, fileVars, appVars, gpsVars, window, reenabled,
                   last_cam>>

-----------------------------------------------------------------------------
(* OAKCameraViewer: recording, disconnecting, closing *)

\* get_frame's queue.get() on a queue the controller has dropped while the
\* capture loop waited on it: the call raises, get_frame returns None.
CapGetClosed ==
    /\ capture_pc.at = "get"
    /\ capture_pc.cam \notin DOMAIN output_queues
    /\ capture_pc' = [capture_pc EXCEPT !.at = CapAdvance(PosOf(capture_pc.cam)).at,
                                        !.cam = CapAdvance(PosOf(capture_pc.cam)).cam]
    /\ UNCHANGED <<gps_capture_running, last_gps_position, capture_obs, ctlVars>>
    /\ CaptureFrame

\* The same for the display loop.
DispGetClosed ==
    /\ disp_pc.at = "get"
    /\ disp_pc.cam \notin DOMAIN output_queues
    /\ disp_pc' = DispAdvance(PosOf(disp_pc.cam))
    /\ UNCHANGED <<display_running, ctlVars, roiVars, mouseVars, roiThread,
                   panelVars, setVars, fileVars, sessionVars, appVars, reenabled,
                   last_cam>>

\* The same for the ROI loop: with no frame no control is sent.
RoiGetClosed ==
    /\ roi_pc = "get"
    /\ "CAM_A" \notin DOMAIN output_queues
    /\ roi_pc' = "mark"
    /\ UNCHANGED <<roi_running, roi_obj, ctlVars, roiVars, mouseVars, dispVars,
                   panelVars, setVars, fileVars, sessionVars, appVars, reenabled,
                   last_cam>>

\* list(self.cameras.keys()), in visiting order.
CameraNames == SelectSeq(CamOrder, LAMBDA c : c \in cameras)

\* toggle_recording: nothing unless connected; stop when recording, else
\* start with the connected cameras and the current codec.
toggle_recording(fail) ==
    /\ ui_pc.at = "idle"
    /\ window = "open"
    /\ IF ~connected \/ (~recording /\ cameras = {})
          THEN UNCHANGED vars
          ELSE IF recording
                  THEN stop_video_recording
                  ELSE /\ fail.at <= Len(CameraNames)
                       /\ start_video_recording(CameraNames, None, fail, 0)

\* roi_thread.join(timeout=1.0) returns: the thread has ended or was never
\* started, or the second has passed with the thread inside queue.get().
RoiJoinReturns == roi_pc \in {"none", "done", "get"}

\* display_thread.join(timeout=1.0) returns.
DisplayJoinReturns == disp_pc.at \in {"none", "done", "get"}

\* CameraController.disconnect: stop_streaming, then everything is dropped.
disconnect ==
    /\ cam_running' = FALSE
    /\ pipeline' = FALSE
    /\ device' = Null
    /\ cameras' = {}
    /\ control_queues' = EmptyMap
    /\ output_queues' = EmptyMap

\* Where the UI thread goes when disconnect_camera returns.
AfterDisconnect(pc) ==
    IF pc.handler = "on_closing" THEN [pc EXCEPT !.at = "cleanup"]
                                    ELSE [pc EXCEPT !.at = "idle"]

\* One step of disconnect_camera for the UI thread at pc.  The UI thread
\* waits in each join; the loops run meanwhile.
DisconnectStep(pc) ==
    CASE pc.at = "enter" ->
           IF ~connected
              THEN /\ ui_pc' = AfterDisconnect(pc)
                   /\ UNCHANGED <<ctlVars, roiThread, dispVars, fileVars, gpsVars,
                                  captureVars, connected>>
              ELSE \* recording is stopped; stop_roi_processing clears its flag
                   /\ IF recording
                         THEN StopRecording
                         ELSE UNCHANGED <<video_writers, recording,
                                          recording_start_time, fm_result>>
                   /\ roi_running' = FALSE
                   /\ ui_pc' = [pc EXCEPT !.at = "join_roi"]
                   /\ UNCHANGED <<ctlVars, roi_pc, roi_obj, dispVars, save_directory,
                                  current_codec, opened, now, gpsVars, captureVars,
                                  connected>>
      [] pc.at = "join_roi" ->
           \* the join returns; stop_display_loop clears its flag
           /\ RoiJoinReturns
           /\ display_running' = FALSE
           /\ ui_pc' = [pc EXCEPT !.at = "join_display"]
           /\ UNCHANGED <<ctlVars, roiThread, disp_pc, fileVars, gpsVars,
                          captureVars, connected>>
      [] pc.at = "join_display" ->
           \* the join returns; camera_controller.disconnect(); disconnect_gps
           \* clears its flag
           /\ DisplayJoinReturns
           /\ disconnect
           /\ GpsStopFlag
           /\ ui_pc' = [pc EXCEPT !.at = "join_gps"]
           /\ UNCHANGED <<roiThread, dispVars, fileVars, captureVars, connected>>
      [] pc.at = "join_gps" ->
           /\ GpsJoinReturns
           /\ ui_pc' = [pc EXCEPT !.at = "close_gps"]
           /\ UNCHANGED <<ctlVars, roiThread, dispVars, fileVars, gpsVars,
                          captureVars, connected>>
      [] pc.at = "close_gps" ->
           \* the rest of disconnect_gps; stop_gps_interval_capture clears its flag
           /\ GpsClose
           /\ gps_capture_running' = FALSE
           /\ ui_pc' = [pc EXCEPT !.at = "join_stopped_capture"]
           /\ UNCHANGED <<ctlVars, roiThread, dispVars, fileVars, last_gps_position,
                          capture_pc, capture_obs, connected>>
      [] pc.at = "join_stopped_capture" ->
           \* the join returns; self.connected = False
           /\ CaptureJoinReturns
           /\ connected' = FALSE
           /\ ui_pc' = AfterDisconnect(pc)
           /\ UNCHANGED <<ctlVars, roiThread, dispVars, fileVars, gpsVars,
                          captureVars>>
      [] OTHER -> FALSE

\* What disconnect_camera and on_closing leave alone.
DisconnectFrame ==
    UNCHANGED <<roiVars, mouseVars, panelVars, setVars, conn_pc, conn_env,
                attempts, requests, reenabled, last_cam>>

\* disconnect_camera: its first step when the UI thread is idle, the next
\* ones while it is in the handler.
disconnect_camera ==
    /\ \/ /\ ui_pc.at = "idle"
          /\ window = "open"
          /\ DisconnectStep([handler |-> "disconnect_camera", at |-> "enter"])
       \/ /\ ui_pc.handler = "disconnect_camera"
          /\ ui_pc.at # "idle"
          /\ DisconnectStep(ui_pc)
    /\ UNCHANGED window
    /\ DisconnectFrame

\* on_closing up to the call of disconnect_camera.  answer is what the user
\* answers should the prompt be shown: "yes" (True), "no" (False) or
\* "cancel" (None).
on_closing(answer) ==
    /\ ui_pc.at = "idle"
    /\ window = "open"
    /\ IF recording /\ answer = "cancel"
          THEN /\ ui_pc' = [handler |-> "on_closing", at |-> "idle"]
               /\ UNCHANGED <<video_writers, recording, recording_start_time,
                              fm_result>>
          ELSE /\ ui_pc' = [handler |-> "on_closing", at |-> "enter"]
               /\ IF recording /\ answer = "yes"
                     THEN StopRecording
                     ELSE UNCHANGED <<video_writers, recording,
                                      recording_start_time, fm_result>>
    /\ UNCHANGED <<ctlVars, roiThread, dispVars, save_directory, current_codec,
                   opened, now, gpsVars, captureVars, connected, window>>
    /\ DisconnectFrame

\* on_closing from the call of disconnect_camera on: its steps, then
\* file_manager.cleanup(), root.quit() and root.destroy().
on_closing_goes_on ==
    /\ ui_pc.handler = "on_closing"
    /\ IF ui_pc.at = "cleanup"
          THEN /\ IF recording
                     THEN StopRecording
                     ELSE UNCHANGED <<video_writers, recording,
                                      recording_start_time, fm_result>>
               /\ window' = "destroyed"
               /\ ui_pc' = [ui_pc EXCEPT !.at = "idle"]
               /\ UNCHANGED <<ctlVars, roiThread, dispVars, save_directory,
                              current_codec, opened, now, gpsVars, captureVars,
                              connected>>
          ELSE /\ DisconnectStep(ui_pc)
               /\ UNCHANGED window
    /\ DisconnectFrame

-----------------------------------------------------------------------------
(* The state after the objects are constructed *)

Init ==
    /\ device = Null
    /\ pipeline = FALSE
    /\ cameras = {}
    /\ output_queues = EmptyMap
    /\ control_queues = EmptyMap
    /\ cam_running = FALSE
    /\ roi_settings = EmptyMap
    /\ settings_changed = EmptyMap
    /\ last_applied_settings = EmptyMap
    /\ roi_running = FALSE
    /\ mouse_roi_enabled = FALSE
    /\ mouse_roi_active = FALSE
    /\ mouse_start_point = NoPoint
    /\ mouse_current_point = NoPoint
    /\ mouse_roi_camera = None
    /\ roi_pc = "none"
    /\ roi_obj = Null
    /\ display_running = FALSE
    /\ disp_pc = [at |-> "none", cam |-> None]
    /\ camera_tabs = {}
    /\ widgets = EmptyMap
    /\ settings = DefaultSettings
    /\ auto_modes = DefaultAutoModes
    /\ last_setter = Null
    /\ calls = 0
    /\ connected = FALSE
    /\ conn_pc = "none"
    /\ conn_env = Null
    /\ attempts = 0
    /\ requests = 0
    /\ save_directory = "captures"
    /\ current_codec = "MJPG"
    /\ video_writers = EmptyMap
    /\ recording = FALSE
    /\ recording_start_time = <<>>
    /\ fm_result = [op |-> "none"]
    /\ opened = {}
    /\ now = 0
    /\ ser = FALSE
    /\ is_connected = FALSE
    /\ is_running = FALSE
    /\ current_data = Null
    /\ last_fix_time = <<>>
    /\ gps_pc = "none"
    /\ data = Null
    /\ stored_at = <<>>
    /\ gps_capture_running = FALSE
    /\ last_gps_position = Null
    /\ capture_pc = [at |-> "none", cam |-> None, first |-> FALSE, gps_data |-> Null]
    /\ capture_obs = Null
    /\ ui_pc = [handler |-> "idle", at |-> "idle"]
    /\ window = "open"
    /\ reenabled = "no"
    /\ last_cam = None

NotCtl == <<roiVars, mouseVars, roiThread, dispVars, panelVars, setVars, fileVars, sessionVars, appVars,
            reenabled, last_cam>>

-----------------------------------------------------------------------------
(* ROIManager driven through its public methods *)

PosArgs == {<<-(Unit \div 10), (3 * Unit) \div 10>>,
            <<(3 * Unit) \div 10, (11 * Unit) \div 10>>}
SizeArgs == {<<0, (4 * Unit) \div 10>>, <<(4 * Unit) \div 10, (11 * Unit) \div 10>>}
ExpArgs == {-12, 2, 12}
SettingsArgs == {[ROISettings EXCEPT !.enabled = TRUE, !.x = 2 * Unit,
                                     !.exposure_compensation = 20]}
MousePoints == {<<100, 100>>, <<200, 200>>, <<700, -40>>}
MouseEvents == {"mousedown", "mousemove", "mouseup"}

Next ==
    \/ \E S \in SUBSET Cameras : device = Null /\ connect(S) /\ UNCHANGED NotCtl
    \/ ~pipeline /\ setup_pipeline /\ UNCHANGED NotCtl
    \/ initialize_for_cameras
    \/ \E c \in Cameras, s \in SettingsArgs : CallSetRoiSettings(c, s)
    \/ \E c \in Cameras, b \in BOOLEAN : CallEnableRoi(c, b)
    \/ \E c \in Cameras, p \in PosArgs : CallSetRoiPosition(c, p[1], p[2])
    \/ \E c \in Cameras, p \in SizeArgs : CallSetRoiSize(c, p[1], p[2])
    \/ \E c \in Cameras, e \in ExpArgs : CallSetExposureCompensation(c, e)
    \/ \E c \in Cameras, b \in BOOLEAN : CallSetFocusRegion(c, b)
    \/ \E c \in Cameras : CallResetRoiSettings(c)
    \/ \E b \in BOOLEAN : enable_mouse_roi(b)
    \/ \E c \in Cameras, e \in MouseEvents, p \in MousePoints :
          handle_mouse_event(c, e, p[1], p[2], FrameWidth, FrameHeight)

Spec == Init /\ [][Next]_vars

-----------------------------------------------------------------------------
(* The controller, the ROI loop and the display loop running together *)

LoopExpArgs == {0, 3}

RoiThreadStep ==
    \/ RoiLoopCheck
    \/ RoiHas
    \/ RoiGet
    \/ _mark_settings_applied
    \/ RoiSleep

DisplayThreadStep ==
    \/ DispLoop
    \/ DispHas
    \/ DispGet
    \/ DispSleep

NextLoop ==
    \/ device = Null /\ connect(LoopSockets) /\ UNCHANGED NotCtl
    \/ ~pipeline /\ setup_pipeline /\ UNCHANGED NotCtl
    \/ ~cam_running /\ start_streaming /\ UNCHANGED NotCtl
    \/ \E c \in LoopSockets : FrameArrives(c) /\ UNCHANGED NotCtl
    \/ initialize_for_cameras
    \/ start_roi_processing
    \/ start_display_loop
    \/ \E b \in BOOLEAN : CallEnableRoi("CAM_A", b)
    \/ \E e \in LoopExpArgs : CallSetExposureCompensation("CAM_A", e)
    \/ \E b \in BOOLEAN : CallSetFocusRegion("CAM_A", b)
    \/ CallResetRoiSettings("CAM_A")
    \/ RoiThreadStep
    \/ DisplayThreadStep

SpecLoop == Init /\ [][NextLoop]_vars

-----------------------------------------------------------------------------
(* The ROI control panel beside mouse selection *)

ScaleNames == {"x_scale", "width_scale"}
ScaleArgs == {Unit \div 5, Unit \div 2}
PanelMousePoints == {<<100, 100>>, <<200, 200>>}

NextPanel ==
    \/ device = Null /\ connect(LoopSockets) /\ UNCHANGED NotCtl
    \/ ~pipeline /\ setup_pipeline /\ UNCHANGED NotCtl
    \/ initialize_for_cameras
    \/ _create_camera_tabs
    \/ \E n \in ScaleNames, v \in ScaleArgs : MoveScale("CAM_A", n, v)
    \/ MoveScale("CAM_A", "exposure_scale", 3)
    \/ _on_roi_enabled("CAM_A")
    \/ _on_focus_toggle("CAM_A")
    \/ _on_apply_roi("CAM_A")
    \/ _on_reset_camera("CAM_A")
    \/ \E b \in BOOLEAN : enable_mouse_roi(b)
    \/ \E e \in MouseEvents, p \in PanelMousePoints :
          handle_mouse_event("CAM_A", e, p[1], p[2], FrameWidth, FrameHeight)

SpecPanel == Init /\ [][NextPanel]_vars

\* The controls of CAM_A's tab show CAM_A's ROI settings.
PanelShows(rs, w) ==
    /\ w.enabled_var = rs.enabled
    /\ w.x_scale = rs.x
    /\ w.y_scale = rs.y
    /\ w.width_scale = rs.width
    /\ w.height_scale = rs.height

\* C10: once a mouse selection on CAM_A has been applied, the panel's
\* position, size and enabled controls show the selected ROI, and pressing
\* "Apply ROI Settings" with the controls as they are leaves the ROI
\* settings equal to the mouse-selected ones.
C10_PanelFollowsMouseROI ==
    [][(/\ "CAM_A" \in camera_tabs
        /\ "CAM_A" \in DOMAIN roi_settings
        /\ mouse_roi_enabled
        /\ mouse_roi_active
        /\ \E p \in PanelMousePoints :
              handle_mouse_event("CAM_A", "mouseup", p[1], p[2],
                                 FrameWidth, FrameHeight))
       => /\ PanelShows(roi_settings'["CAM_A"], widgets'["CAM_A"])
          /\ ApplyControls(roi_settings', widgets'["CAM_A"], "CAM_A") = roi_settings']_vars

-----------------------------------------------------------------------------
(* Connecting, with the user free to ask again *)

MaxRequests == 3

NextConn ==
    \/ \E env \in ConnEnvs : requests < MaxRequests /\ connect_camera(env)
    \/ _connect_camera_thread
    \/ \E b \in BOOLEAN : enable_mouse_roi(b)

SpecConn == Init /\ [][NextConn]_vars

\* C5: an attempt in which the device connects with a camera and pipeline
\* setup and streaming start would both succeed ends with the application
\* connected and the ROI loop and the display loop started.
C5_ConnectSucceeds ==
    (/\ conn_pc \in {"failed", "finished"}
     /\ conn_env.connect = "ok"
     /\ conn_env.pipeline
     /\ conn_env.stream)
    => /\ connected
       /\ roi_running
       /\ display_running

\* C6: an attempt that failed leaves connected False; connected becomes True
\* only at the end of an attempt whose three steps succeeded; and an attempt
\* starts only with an invocation of connect_camera.
C6_FailedAttemptNoRetry ==
    /\ [](conn_pc = "failed" => ~connected)
    /\ [](attempts <= requests)
    /\ [][connected' # connected =>
             /\ connected'
             /\ conn_pc' = "finished"
             /\ conn_env.connect = "ok" /\ conn_env.pipeline /\ conn_env.stream
             /\ device' # Null /\ pipeline' /\ cam_running']_vars
    /\ [][attempts' # attempts =>
             /\ attempts' = attempts + 1
             /\ requests' = requests + 1
             /\ conn_pc \in {"none", "failed", "finished"}]_vars

\* C6 witness: a second attempt has failed after the set-up of the pipeline
\* was left by an exception, and connected is False.
C6_Witness ==
    /\ conn_pc = "failed"
    /\ conn_env.connect = "ok"
    /\ attempts = 2
    /\ requests = 2
    /\ ~connected

-----------------------------------------------------------------------------
(* The settings manager driven through its methods *)

MaxCalls == 3

\* The [MIN, MAX] range of each setting that has a clamping setter.
SettingRange ==
    [exposure |-> <<EXPOSURE_MIN, EXPOSURE_MAX>>,
     iso |-> <<ISO_MIN, ISO_MAX>>,
     focus |-> <<FOCUS_MIN, FOCUS_MAX>>,
     brightness |-> <<BRIGHTNESS_MIN, BRIGHTNESS_MAX>>,
     contrast |-> <<CONTRAST_MIN, CONTRAST_MAX>>,
     saturation |-> <<SATURATION_MIN, SATURATION_MAX>>,
     sharpness |-> <<SHARPNESS_MIN, SHARPNESS_MAX>>,
     white_balance |-> <<WB_MIN, WB_MAX>>,
     luma_denoise |-> <<0, 4>>,
     chroma_denoise |-> <<0, 4>>]

\* Arguments tried for a setting: one below the range, one inside it that
\* is not the default, one above.
SetterArgs(name) ==
    {SettingRange[name][1] - 1, SettingRange[name][2] - 1, SettingRange[name][2] + 1}

\* Values typed into the GPS interval box, in metres.
GpsIntervalArgs == {0, 4}

NextSettings ==
    \/ device = Null /\ connect(LoopSockets) /\ UNCHANGED NotCtl
    \/ ~pipeline /\ setup_pipeline /\ UNCHANGED NotCtl
    \/ \E v \in SetterArgs("exposure") : calls < MaxCalls /\ set_exposure(v)
    \/ \E v \in SetterArgs("iso") : calls < MaxCalls /\ set_iso(v)
    \/ \E v \in SetterArgs("focus") : calls < MaxCalls /\ set_focus(v)
    \/ \E v \in SetterArgs("brightness") : calls < MaxCalls /\ set_brightness(v)
    \/ \E v \in SetterArgs("contrast") : calls < MaxCalls /\ set_contrast(v)
    \/ \E v \in SetterArgs("saturation") : calls < MaxCalls /\ set_saturation(v)
    \/ \E v \in SetterArgs("sharpness") : calls < MaxCalls /\ set_sharpness(v)
    \/ \E v \in SetterArgs("white_balance") :
          calls < MaxCalls /\ set_white_balance(v)
    \/ \E v \in SetterArgs("luma_denoise") : calls < MaxCalls /\ set_luma_denoise(v)
    \/ \E v \in SetterArgs("chroma_denoise") :
          calls < MaxCalls /\ set_chroma_denoise(v)
    \/ \E b \in BOOLEAN : calls < MaxCalls /\ set_auto_exposure(b)
    \/ \E b \in BOOLEAN : calls < MaxCalls /\ set_auto_focus(b)
    \/ \E b \in BOOLEAN : calls < MaxCalls /\ set_auto_white_balance(b)
    \/ \E k \in {"exposure", "sharpness"}, v \in {-5, 50000} :
          calls < MaxCalls /\ update_setting(k, v)
    \/ \E v \in GpsIntervalArgs :
          calls < MaxCalls /\ _on_gps_interval_changed(v)
    \/ calls < MaxCalls /\ reset_to_defaults

SpecSettings == Init /\ [][NextSettings]_vars

\* C8: after a call of a clamping setter the stored value of its setting lies
\* within the setting's [MIN, MAX], and equals the argument when the argument
\* already lies within [MIN, MAX].
C8_SettersClamp ==
    last_setter # Null =>
        LET stored == settings[last_setter.name]
            min_val == SettingRange[last_setter.name][1]
            max_val == SettingRange[last_setter.name][2]
        IN  /\ min_val <= stored
            /\ stored <= max_val
            /\ (min_val <= last_setter.value /\ last_setter.value <= max_val)
                  => stored = last_setter.value

\* C8 witness: every kind of argument has been passed to some setter: one
\* below the range (here to set_brightness), and the setting holds MIN.
C8_Witness ==
    /\ last_setter # Null
    /\ last_setter.name = "brightness"
    /\ last_setter.value = BRIGHTNESS_MIN - 1
    /\ settings.brightness = BRIGHTNESS_MIN

\* C16: when reset_to_defaults returns, every entry of the settings
\* dictionary and every auto-mode flag has the value it had at construction,
\* whatever calls came before.
C16_ResetRestoresConstruction ==
    (last_setter # Null /\ "by" \in DOMAIN last_setter) =>
        settings = DefaultSettings /\ auto_modes = DefaultAutoModes

-----------------------------------------------------------------------------
(* The GPS receiver driven through GPSIntegration's methods *)

MaxGpsTime == 11

NextGps ==
    \/ now < MaxGpsTime /\ SameSecond /\ Tick
    \/ \E found \in BOOLEAN : ui_pc.at = "idle" /\ connect_gps(found)
    \/ ui_pc.at = "idle" /\ start_gps_monitoring
    \/ \E found \in BOOLEAN, line \in Sentences :
          ui_pc.at = "idle" /\ test_gps_connection(found, line)
    \/ disconnect_gps
    \/ GpsThreadStep

SpecGps == Init /\ [][NextGps]_vars

-----------------------------------------------------------------------------
(* GPS interval capture in a connected session *)

MaxSessions == 1

\* A device with CAM_A on which every step of the connection succeeds.
CaptureEnvs == {[connect |-> "ok", pipeline |-> TRUE, stream |-> TRUE,
                 sockets |-> LoopSockets]}

\* The lines the receiver sends in a session: RMC sentences, or none in time.
SessionLines == {line \in Sentences : line.type = "RMC"} \cup {NoLine}

\* The monitor thread's steps with the lines of a session.
SessionGpsStep ==
    \/ GpsLoopCheck
    \/ \E line \in SessionLines : GpsReadline(line)
    \/ GpsStore
    \/ GpsStamp

NextCapture ==
    \/ \E env \in CaptureEnvs :
          requests < MaxSessions /\ ui_pc.at = "idle" /\ connect_camera(env)
    \/ _connect_camera_thread
    \/ set_desired_resolutions
    \/ \E found \in BOOLEAN : start_gps(found)
    \/ FrameArrives("CAM_A") /\ UNCHANGED NotCtl
    \/ SessionGpsStep
    \/ CaptureThreadStep
    \/ toggle_gps_interval_capture
    \/ \E v \in GpsIntervalArgs :
          ui_pc.at = "idle" /\ calls < MaxCalls /\ _on_gps_interval_changed(v)

SpecCapture == Init /\ [][NextCapture]_vars

-----------------------------------------------------------------------------
(* A session: connecting, recording, disconnecting, closing the window *)

\* A device with two cameras on which every step of the connection succeeds.
SessionEnvs == {[connect |-> "ok", pipeline |-> TRUE, stream |-> TRUE,
                 sockets |-> Cameras]}

\* What may happen to the writers when a recording starts: all open, or the
\* creation of the second camera's writer raises.
SessionFailures == {[at |-> 0, kind |-> "none"], [at |-> 2, kind |-> "exception"]}

\* The lines the receiver sends in this session: a fix, or none in time.
ClosingLines == {[type |-> "RMC", status |-> "A", latitude |-> 0], NoLine}

\* The ROI loop while ROI stays disabled.
SessionRoiStep ==
    \/ RoiLoopCheck
    \/ RoiSleep

NextSession ==
    \/ \E env \in SessionEnvs :
          /\ requests < MaxSessions
          /\ ui_pc.at = "idle"
          /\ window = "open"
          /\ connect_camera(env)
    \/ _connect_camera_thread
    \/ set_desired_resolutions
    \/ \E found \in BOOLEAN : start_gps(found)
    \/ FrameArrives("CAM_A") /\ UNCHANGED NotCtl
    \/ GpsLoopCheck
    \/ \E line \in ClosingLines : GpsReadline(line)
    \/ GpsStore
    \/ GpsStamp
    \/ SessionRoiStep
    \/ DisplayThreadStep
    \/ DispGetClosed
    \/ CaptureThreadStep
    \/ CapGetClosed
    \/ window = "open" /\ toggle_gps_interval_capture
    \/ \E fail \in SessionFailures : toggle_recording(fail)
    \/ disconnect_camera
    \/ \E answer \in {"yes", "no", "cancel"} : on_closing(answer)
    \/ on_closing_goes_on

SpecSession == Init /\ [][NextSession]_vars

\* What the claim says of the state disconnect_camera leaves behind.
Disconnected ==
    /\ ~connected
    /\ ~recording
    /\ ~roi_running
    /\ ~display_running
    /\ device = Null
    /\ ~pipeline
    /\ cameras = {}
    /\ output_queues = EmptyMap
    /\ control_queues = EmptyMap
    /\ ~is_connected
    /\ current_data = Null
    /\ ~gps_capture_running

\* C17: when disconnect_camera returns from the connected state, connected
\* is False, nothing is recording, the ROI and display flags are False, the
\* controller holds no device, pipeline, camera or queue, the GPS is
\* disconnected with no current fix and GPS interval capture is flagged
\* stopped.
C17_DisconnectLeavesNothing ==
    [][(/\ ui_pc.handler = "disconnect_camera"
        /\ ui_pc.at = "join_stopped_capture"
        /\ ui_pc'.at = "idle") => Disconnected']_vars

\* C18: when on_closing runs while a recording is active and the user
\* cancels, nothing is stopped and the window stays; in every other case no
\* recording is in progress and no video writer is left once the handler
\* has completed.
C18_ClosingReleasesWriters ==
    [][/\ (/\ recording
           /\ ui_pc.at = "idle"
           /\ ui_pc' = [handler |-> "on_closing", at |-> "idle"]
           /\ ui_pc' # ui_pc)
          => /\ recording'
             /\ window' = "open"
             /\ UNCHANGED <<video_writers, connected, roi_running, display_running,
                            is_running, gps_capture_running, ctlVars>>
       /\ (/\ ui_pc.handler = "on_closing"
           /\ ui_pc.at = "cleanup"
           /\ window' = "destroyed")
          => /\ ~recording'
             /\ video_writers' = EmptyMap]_vars

-----------------------------------------------------------------------------
(* The four background loops and their stop operations *)

\* The steps of each loop thread.
RoiLoopThread == RoiThreadStep \/ RoiGetClosed
DisplayLoopThread == DisplayThreadStep \/ DispGetClosed
GpsLoopThread ==
    GpsLoopCheck \/ (\E line \in ClosingLines : GpsReadline(line)) \/ GpsStore
      \/ GpsStamp
CaptureLoopThread == CaptureThreadStep \/ CapGetClosed

NextLive ==
    \/ \E env \in CaptureEnvs :
          /\ requests < MaxSessions
          /\ ui_pc.at = "idle"
          /\ connect_camera(env)
    \/ _connect_camera_thread
    \/ set_desired_resolutions
    \/ start_gps(TRUE)
    \/ FrameArrives("CAM_A") /\ UNCHANGED NotCtl
    \/ ui_pc.at = "idle" /\ connected /\ ~roi_settings["CAM_A"].enabled
          /\ CallEnableRoi("CAM_A", TRUE)
    \/ RoiLoopThread
    \/ DisplayLoopThread
    \/ GpsLoopThread
    \/ CaptureLoopThread
    \/ toggle_gps_interval_capture
    \/ disconnect_camera

\* The connection thread and the thread it launches.
ConnectionThreads == _connect_camera_thread \/ set_desired_resolutions \/ start_gps(TRUE)

\* The UI thread inside a handler that waits in a join.
HandlerGoesOn ==
    /\ ui_pc.at # "idle"
    /\ (toggle_gps_interval_capture \/ disconnect_camera)

\* Every thread of the program is scheduled again and again while it can
\* take a step; the user and the device owe nothing.
SpecLive ==
    /\ Init
    /\ [][NextLive]_vars
    /\ WF_vars(ConnectionThreads)
    /\ WF_vars(HandlerGoesOn)
    /\ WF_vars(RoiLoopThread)
    /\ WF_vars(DisplayLoopThread)
    /\ WF_vars(GpsLoopThread)
    /\ WF_vars(CaptureLoopThread)

\* C15: once the running flag of a loop (ROI processing, display refresh,
\* GPS monitoring, GPS interval capture) has been cleared and is not set
\* again, the loop eventually ends, under weak fairness of the loop thread.
C15_ClearedFlagEndsLoop ==
    /\ (~roi_running /\ roi_pc \notin {"none", "done"})
          ~> (roi_pc = "done" \/ roi_running)
    /\ (~display_running /\ disp_pc.at \notin {"none", "done"})
          ~> (disp_pc.at = "done" \/ display_running)
    /\ (~is_running /\ gps_pc \notin {"none", "done"})
          ~> (gps_pc = "done" \/ is_running)
    /\ (~gps_capture_running /\ capture_pc.at \notin {"none", "done"})
          ~> (capture_pc.at = "done" \/ gps_capture_running)

-----------------------------------------------------------------------------
(* The file manager driven through its methods *)

MaxTime == 3
CameraLists == {<<"CAM_A">>, <<"CAM_A", "CAM_B">>}
CodecArgs == {None, "XVID", "MP4V"}
Failures == {[at |-> 0, kind |-> "none"], [at |-> 1, kind |-> "not_opened"],
             [at |-> 2, kind |-> "not_opened"], [at |-> 2, kind |-> "exception"]}
Directories == {"captures", "elsewhere"}

\* A failure that can happen with the list camera_names.
CanFail(camera_names, fail) == fail.at <= Len(camera_names)

NextFiles ==
    \/ now < MaxTime /\ Tick
    \/ \E d \in Directories : set_save_directory(d)
    \/ \E c \in {"MP4V", "MJPG", "FLV1"} : set_video_codec(c)
    \/ \E l \in CameraLists, c \in CodecArgs, f \in Failures, e \in {0, 1} :
          /\ CanFail(l, f)
          /\ now + e <= MaxTime
          /\ start_video_recording(l, c, f, e)
    \/ stop_video_recording

SpecFiles == Init /\ [][NextFiles]_vars

\* A call of start_video_recording with some arguments.
SomeStart ==
    \E l \in CameraLists, c \in CodecArgs, f \in Failures, e \in {0, 1} :
        CanFail(l, f) /\ start_video_recording(l, c, f, e)

\* C11: start_video_recording while recording returns (False, "Recording
\* already in progress"), stop_video_recording while not recording returns
\* (False, "No recording in progress", []); either way the recording flag,
\* the start time and the video writers are unchanged.
C11_RefusedCallsChangeNothing ==
    /\ [][(recording /\ SomeStart) =>
             /\ fm_result' = [op |-> "start", success |-> FALSE,
                              message |-> "Recording already in progress"]
             /\ UNCHANGED <<recording, recording_start_time, video_writers>>]_vars
    /\ [][(~recording /\ stop_video_recording) =>
             /\ fm_result' = [op |-> "stop", success |-> FALSE,
                              message |-> "No recording in progress",
                              filepaths |-> {}]
             /\ UNCHANGED <<recording, recording_start_time, video_writers>>]_vars

\* C11 witness: a start was refused while a recording of two cameras, begun
\* earlier, is in progress.
C11_Witness ==
    /\ fm_result = [op |-> "start", success |-> FALSE,
                    message |-> "Recording already in progress"]
    /\ recording
    /\ DOMAIN video_writers = {"CAM_A", "CAM_B"}
    /\ recording_start_time # <<>>
    /\ recording_start_time[1] < now

\* C12: after a start_video_recording that failed, the recording flag is
\* False and no video writer is registered (or open).
C12_FailedStartLeavesNoWriter ==
    (/\ fm_result.op = "start"
     /\ ~fm_result.success
     /\ fm_result.message # "Recording already in progress")
    => /\ ~recording
       /\ video_writers = EmptyMap

\* C13: a successful stop_video_recording returns exactly the paths of the
\* files the matching start opened.
C13_StopReturnsOpenedPaths ==
    (fm_result.op = "stop" /\ fm_result.success) => fm_result.filepaths = opened

\* C14: the duration a successful stop_video_recording reports is the time
\* between the start of the recording and the stop.
C14_DurationIsElapsedTime ==
    [][(/\ recording
        /\ recording_start_time # <<>>
        /\ stop_video_recording)
       => fm_result'.duration = now - recording_start_time[1]]_vars

-----------------------------------------------------------------------------
(* Claims about the loops (checked under SpecLoop) *)

\* C1: get_frame never blocks: no caller is ever inside queue.get() on a
\* queue that holds no frame, also when the ROI loop and the display loop
\* read the same camera concurrently.
C1_GetFrameNeverBlocks ==
    /\ roi_pc = "get" => output_queues["CAM_A"] > 0
    /\ disp_pc.at = "get" => output_queues[disp_pc.cam] > 0

\* C2: while the camera streams, CAM_A's settings are never recorded as
\* applied without the control carrying exactly those settings having been
\* sent to CAM_A.
C2_AppliedOnlyAfterSent ==
    (/\ cam_running
     /\ "CAM_A" \in DOMAIN last_applied_settings
     /\ last_applied_settings["CAM_A"] # EmptyDict)
    => /\ "CAM_A" \in DOMAIN control_queues
       /\ control_queues["CAM_A"] =
              RoiControl(last_applied_settings["CAM_A"], FrameWidth, FrameHeight)

\* C3: after enable_roi(CAM_A, False) followed by enable_roi(CAM_A, True),
\* with no other setting changed in between, on a camera that has received
\* an ROI control before, the next pass of the running ROI loop that sees
\* the enabled ROI goes on to apply it again.
C3_ReenableIsApplied ==
    [][(/\ roi_pc = "loop"
        /\ roi_pc' # "loop"
        /\ roi_running
        /\ "CAM_A" \in DOMAIN roi_settings
        /\ roi_settings["CAM_A"].enabled
        /\ "CAM_A" \in DOMAIN control_queues
        /\ control_queues["CAM_A"] # Null
        /\ reenabled = "yes")
       => roi_pc' = "has"]_vars

-----------------------------------------------------------------------------
(* Claims about ROIManager's public methods (checked under Spec) *)

\* Everything but the record of which camera the last call named.
programVars == <<ctlVars, roiVars, mouseVars, roiThread, dispVars, panelVars,
                 setVars, fileVars, sessionVars, appVars>>

\* C4: with mouse selection enabled, a selection on CAM_A that started at
\* (x1,y1) and ends with a mouseup at (x2,y2) sets CAM_A's ROI to the
\* rectangle spanned by the two points (centre at the midpoint, size
\* |x2-x1| by |y2-y1| over the frame size, at least 5% each) and enables it.
C4_MouseUpSetsSpannedROI ==
    [][\A p \in MousePoints :
          (/\ mouse_roi_enabled
           /\ mouse_roi_active
           /\ "CAM_A" \in DOMAIN roi_settings
           /\ handle_mouse_event("CAM_A", "mouseup", p[1], p[2],
                                 FrameWidth, FrameHeight))
          => roi_settings'["CAM_A"] =
                 _apply_mouse_roi(roi_settings["CAM_A"], mouse_start_point, p,
                                  FrameWidth, FrameHeight)]_vars

\* C7: CAM_A's ROI settings always satisfy 0 <= x, y, width, height <= 1 and
\* -9 <= exposure_compensation <= 9.
C7_ROISettingsInRange ==
    "CAM_A" \in DOMAIN roi_settings =>
        LET s == roi_settings["CAM_A"]
        IN  /\ 0 <= s.x /\ s.x <= Unit
            /\ 0 <= s.y /\ s.y <= Unit
            /\ 0 <= s.width /\ s.width <= Unit
            /\ 0 <= s.height /\ s.height <= Unit
            /\ -9 <= s.exposure_compensation /\ s.exposure_compensation <= 9

\* A ROIManager call that names camera c.
CallNaming(c) ==
    \/ \E s \in SettingsArgs : CallSetRoiSettings(c, s)
    \/ \E b \in BOOLEAN : CallEnableRoi(c, b)
    \/ \E p \in PosArgs : CallSetRoiPosition(c, p[1], p[2])
    \/ \E p \in SizeArgs : CallSetRoiSize(c, p[1], p[2])
    \/ \E e \in ExpArgs : CallSetExposureCompensation(c, e)
    \/ \E b \in BOOLEAN : CallSetFocusRegion(c, b)
    \/ CallResetRoiSettings(c)
    \/ \E e \in MouseEvents, p \in MousePoints :
          handle_mouse_event(c, e, p[1], p[2], FrameWidth, FrameHeight)

\* C9: ROI settings exist for CAM_A only: roi_settings never has a key other
\* than CAM_A, get_roi_settings of another camera returns None, and a call
\* naming another camera changes no state.
C9_OnlyCamA ==
    /\ [](/\ DOMAIN roi_settings \subseteq {"CAM_A"}
          /\ \A c \in Cameras \ {"CAM_A"} : get_roi_settings(c) = Null)
    /\ [][\A c \in Cameras \ {"CAM_A"} :
             CallNaming(c) => UNCHANGED programVars]_vars

\* C9 witness: CAM_B is connected beside CAM_A, CAM_A has its settings, and
\* the last call named CAM_B.
C9_Witness ==
    /\ cameras = {"CAM_A", "CAM_B"}
    /\ DOMAIN roi_settings = {"CAM_A"}
    /\ last_cam = "CAM_B"

\* C21: whenever a mouse selection is active, mouse selection is enabled,
\* the start and current points are set and the selection camera is CAM_A;
\* whenever none is active, the start point, the current point and the
\* selection camera are all None.
C21_MouseSelectionConsistent ==
    /\ mouse_roi_active =>
          /\ mouse_roi_enabled
          /\ mouse_start_point # NoPoint
          /\ mouse_current_point # NoPoint
          /\ mouse_roi_camera = "CAM_A"
    /\ ~mouse_roi_active =>
          /\ mouse_start_point = NoPoint
          /\ mouse_current_point = NoPoint
          /\ mouse_roi_camera = None

\* A selection under way whose current point has moved off its start point.
C21_Witness ==
    /\ mouse_roi_active
    /\ mouse_roi_enabled
    /\ mouse_start_point = <<100, 100>>
    /\ mouse_current_point = <<200, 200>>
    /\ mouse_roi_camera = "CAM_A"

====
